---------------------------- MODULE Spec2Model ----------------------------
(***************************************************************************)
(* Computation-graph nodes of neuronika: the elementwise multiplication    *)
(* family (Multiplication, MultiplicationBackward, ...Unary) and the       *)
(* matrix-multiply-with-transpose family (MatrixMatrixMulT and its three   *)
(* backward nodes), and the Adam optimizer that consumes the gradients.    *)
(*                                                                         *)
(* Tensors hold f32 in the source.  The model uses small integers, on      *)
(* which f32 addition and multiplication are exact.                        *)
(***************************************************************************)
EXTENDS Integers, Sequences, FiniteSets, TLC

VARIABLES
    graph,         \* the nodes built at construction and their Rc parents
    data,          \* data[n]: the tensor of data node n (Input value or cached op value)
    computed,      \* computed[n]: Cell<bool> of forward op node n
    calls,         \* history: forward() calls on n since its last reset_computation()
    computations,  \* history: writes of n's cached value since its last reset
    recomputed,    \* history: n's last computation replaced non-zero contents
    pass,          \* history: the nodes reset, then visited, by the pass under way
    gradient,      \* gradient[n]: Option<Tensor> of gradient node n
    shape,         \* shape[n]: the shape field stored by new()
    overwrite,     \* overwrite[n]: Cell<bool> of gradient node n
    buffer,        \* buffer[n]: scratch tensor of a multiplication backward node
    pushed,        \* history: contributions pushed to n since its flag was last true
    roundTrip,     \* history: no_grad()/with_grad() round trip of n
    panic,         \* NoPanic, or the call that failed fatally
    adam,          \* the Adam optimizer: params, lr, penalty, betas, eps
    running,       \* the par_iter_mut of step() or zero_grad() in progress
    penalised,     \* history: penalise() calls of the last step(), per parameter
    stepCalls,     \* history: step() calls since Adam::new
    lastOp         \* history: the last step() or zero_grad() and the optimizer it started on

vars == <<graph, data, computed, calls, computations, recomputed, pass, gradient,
          shape, overwrite, buffer, pushed, roundTrip, panic, adam, running,
          penalised, stepCalls, lastOp>>

fwdVars == <<data, computed, calls, computations, recomputed, pass>>
bwdVars == <<gradient, shape, overwrite, buffer, pushed, roundTrip>>
optVars == <<adam, running, penalised, stepCalls, lastOp>>

-----------------------------------------------------------------------------
(* Bounds of the model *)

\* forward() calls on one node between two resets
MaxCalls == 2
\* contributions recorded for one parent before its flag is set again
MaxPushes == 2

-----------------------------------------------------------------------------
(* Tensors: a shape and one element per index *)

Range(s) == {s[k] : k \in DOMAIN s}

MaxOf(S) == CHOOSE x \in S : \A y \in S : y <= x

Indices(s) ==
    {i \in [DOMAIN s -> 1..MaxOf(Range(s))] : \A k \in DOMAIN s : i[k] <= s[k]}

Tensor(s, f) == [shape |-> s, data |-> f]

Zeros(s) == Tensor(s, [i \in Indices(s) |-> 0])

Fill(s, v) == Tensor(s, [i \in Indices(s) |-> v])

\* the rank-1 tensor of the elements of v
Vec(v) == Tensor(<<Len(v)>>, [i \in Indices(<<Len(v)>>) |-> v[i[1]]])

\* the rank-2 tensor of the rows of m
Mat(m) ==
    Tensor(<<Len(m), Len(m[1])>>,
           [i \in Indices(<<Len(m), Len(m[1])>>) |-> m[i[1]][i[2]]])

\* Option::None of a gradient or scratch buffer
None == Tensor(<<>>, <<>>)

RECURSIVE SumOver(_, _)
SumOver(S, f) ==
    IF S = {} THEN 0
    ELSE LET x == CHOOSE y \in S : TRUE IN f[x] + SumOver(S \ {x}, f)

IsZero(t) == \A i \in DOMAIN t.data : t.data[i] = 0

Add(a, b) == Tensor(a.shape, [i \in Indices(a.shape) |-> a.data[i] + b.data[i]])

-----------------------------------------------------------------------------
(* NumPy-style broadcasting *)

Max2(a, b) == IF a >= b THEN a ELSE b

\* shape s with leading axes of size 1 up to rank r
Pad(s, r) == [k \in 1..r |-> IF k <= r - Len(s) THEN 1 ELSE s[k - (r - Len(s))]]

Broadcastable(a, b) ==
    LET r == Max2(Len(a), Len(b)) IN
    \A k \in 1..r : \/ Pad(a, r)[k] = Pad(b, r)[k]
                    \/ Pad(a, r)[k] = 1
                    \/ Pad(b, r)[k] = 1

BroadcastShape(a, b) ==
    LET r == Max2(Len(a), Len(b)) IN
    [k \in 1..r |-> IF Pad(a, r)[k] = 1 THEN Pad(b, r)[k] ELSE Pad(a, r)[k]]

\* the index of a tensor of shape s that a broadcast view shows at index i
BroadcastIndex(s, i) ==
    [k \in 1..Len(s) |-> IF s[k] = 1 THEN 1 ELSE i[k + (Len(i) - Len(s))]]

\* Zip::from(out).and_broadcast(l).and_broadcast(r).for_each(|v, l, r| *v = l * r)
ZipMul(outShape, l, r) ==
    Tensor(outShape,
           [i \in Indices(outShape) |->
               l.data[BroadcastIndex(l.shape, i)] * r.data[BroadcastIndex(r.shape, i)]])

-----------------------------------------------------------------------------
(* Rank-2 linear algebra *)

Transpose(t) ==
    Tensor(<<t.shape[2], t.shape[1]>>,
           [i \in Indices(<<t.shape[2], t.shape[1]>>) |-> t.data[<<i[2], i[1]>>]])

MatMul(a, b) ==
    Tensor(<<a.shape[1], b.shape[2]>>,
           [i \in Indices(<<a.shape[1], b.shape[2]>>) |->
               SumOver(1..a.shape[2],
                       [k \in 1..a.shape[2] |-> a.data[<<i[1], k>>] * b.data[<<k, i[2]>>]])])

\* general_mat_mul(alpha, a, b, beta, c): c <- alpha * a . b + beta * c
GeneralMatMul(alpha, a, b, beta, c) ==
    Tensor(c.shape,
           [i \in Indices(c.shape) |-> alpha * MatMul(a, b).data[i] + beta * c.data[i]])

\* DotDim::shape of a (m, k) and a (k, n) operand
DotDimCompatible(l, r) == l[2] = r[1]

DotDimShape(l, r) == <<l[1], r[2]>>


-----------------------------------------------------------------------------
(* The graphs.  A node is named by a string; "none" stands for a parent    *)
(* the struct does not have.  A forward op node records its two Rc         *)
(* parents; a backward node records the data and gradient parents its      *)
(* struct holds.                                                           *)

NoNode == "none"

FwdNode(k, l, r) == [kind |-> k, left |-> l, right |-> r]

BwdNode(k, ld, lg, rd, rg) ==
    [kind |-> k, left_data |-> ld, left_grad |-> lg, right_data |-> rd, right_grad |-> rg]

NoFwd == [n \in {} |-> FwdNode("", NoNode, NoNode)]

NoBwd == [n \in {} |-> BwdNode("", NoNode, NoNode, NoNode, NoNode)]

NoShapes == [n \in {} |-> <<>>]

Graph(name, leafShape, leafVals, fwd, order, gradShape, bwd, border) ==
    [name |-> name, leafShape |-> leafShape, leafVals |-> leafVals, fwd |-> fwd,
     order |-> order, gradShape |-> gradShape, bwd |-> bwd, border |-> border]

\* x (2) and y (1) feed a = x * y; a feeds s1 = a * x and s2 = a * y; d = s1 * s2
DiamondGraph ==
    Graph("diamond",
          [n \in {"x", "y"} |-> IF n = "x" THEN <<2>> ELSE <<1>>],
          [n \in {"x", "y"} |-> IF n = "x" THEN {Vec(<<1, 2>>), Vec(<<2, 1>>)}
                                           ELSE {Vec(<<2>>)}],
          [n \in {"a", "s1", "s2", "d"} |->
              CASE n = "a"  -> FwdNode("Multiplication", "x", "y")
                [] n = "s1" -> FwdNode("Multiplication", "a", "x")
                [] n = "s2" -> FwdNode("Multiplication", "a", "y")
                [] n = "d"  -> FwdNode("Multiplication", "s1", "s2")],
          <<"a", "s1", "s2", "d">>,
          NoShapes, NoBwd, <<>>)

\* operands of different rank: (2) * (2, 1) broadcasts to (2, 2)
RankGraph ==
    Graph("rank",
          [n \in {"x", "y"} |-> IF n = "x" THEN <<2>> ELSE <<2, 1>>],
          [n \in {"x", "y"} |->
              IF n = "x" THEN {Vec(<<1, 2>>), Vec(<<3, 1>>)}
                         ELSE {Mat(<<<<1>>, <<3>>>>), Mat(<<<<2>>, <<1>>>>)}],
          [n \in {"p"} |-> FwdNode("Multiplication", "x", "y")],
          <<"p">>,
          NoShapes, NoBwd, <<>>)

\* l (1, 2) and r (2, 2): m = l . r^T is (1, 2); q = m . r^T is (1, 2)
MatGraph ==
    Graph("mat",
          [n \in {"l", "r"} |-> IF n = "l" THEN <<1, 2>> ELSE <<2, 2>>],
          [n \in {"l", "r"} |->
              IF n = "l" THEN {Mat(<<<<1, 2>>>>), Mat(<<<<2, 0>>>>)}
                         ELSE {Mat(<<<<1, 2>>, <<0, 1>>>>), Mat(<<<<1, 1>>, <<2, 0>>>>)}],
          [n \in {"m", "q"} |->
              IF n = "m" THEN FwdNode("MatrixMatrixMulT", "l", "r")
                         ELSE FwdNode("MatrixMatrixMulT", "m", "r")],
          <<"m", "q">>,
          NoShapes, NoBwd, <<>>)

\* l = 2 x 3 ones and r = 4 x 3 ones: m = l . r^T is 2 x 4
OnesGraph ==
    Graph("ones",
          [n \in {"l", "r"} |-> IF n = "l" THEN <<2, 3>> ELSE <<4, 3>>],
          [n \in {"l", "r"} |-> IF n = "l" THEN {Fill(<<2, 3>>, 1)}
                                           ELSE {Fill(<<4, 3>>, 1)}],
          [n \in {"m"} |-> FwdNode("MatrixMatrixMulT", "l", "r")],
          <<"m">>,
          NoShapes, NoBwd, <<>>)

ForwardGraphs == {DiamondGraph, RankGraph, MatGraph, OnesGraph}

Leaves(g) == DOMAIN g.leafShape

OpNodes(g) == DOMAIN g.fwd

DataNodes(g) == Leaves(g) \cup OpNodes(g)

GradNodes(g) == DOMAIN g.gradShape \cup DOMAIN g.bwd

-----------------------------------------------------------------------------
(* Construction of the forward nodes *)

\* cobroadcasted_zeros(&left.data(), &right.data())
CobroadcastedZeros(l, r) == Zeros(BroadcastShape(l.shape, r.shape))

\* Multiplication::new: the data field
MultiplicationNew(l, r) == CobroadcastedZeros(l, r)

\* MatrixMatrixMulT::new: the data field
MatrixMatrixMulTNew(l, r) == Zeros(DotDimShape(l.shape, Transpose(r).shape))

NewData(k, l, r) ==
    IF k = "Multiplication" THEN MultiplicationNew(l, r) ELSE MatrixMatrixMulTNew(l, r)

\* the nodes of g built parents first, on the leaf tensors lv
RECURSIVE Build(_, _, _)
Build(g, lv, k) ==
    IF k = 0 THEN lv
    ELSE LET prev == Build(g, lv, k - 1)
             n == g.order[k]
             nd == g.fwd[n]
         IN [m \in DOMAIN prev \cup {n} |->
                IF m = n THEN NewData(nd.kind, prev[nd.left], prev[nd.right])
                         ELSE prev[m]]

LeafTensors(g) ==
    {lv \in [Leaves(g) -> UNION {g.leafVals[l] : l \in Leaves(g)}] :
        \A l \in Leaves(g) : lv[l] \in g.leafVals[l]}

NoPanic == [op |-> "none", node |-> NoNode, at |-> NoNode]

Panic(op, n, at) == [op |-> op, node |-> n, at |-> at]

\* no pass is under way
NoPass == [reset |-> {}, visited |-> {}]

\* the parents of op node n that are op nodes themselves
OpParents(g, n) == {g.fwd[n].left, g.fwd[n].right} \cap OpNodes(g)

\* history of a pass: reset_computation() on n belongs to the sweep that
\* precedes a pass; one that comes after a forward() starts a new sweep
Sweep(n) ==
    IF pass.visited = {} THEN [pass EXCEPT !.reset = @ \cup {n}]
    ELSE [reset |-> {n}, visited |-> {}]

\* history of a pass: forward() on n belongs to the pass when every node was
\* reset before it and the parents of n were visited before n
Visit(n) ==
    IF pass.reset = OpNodes(graph) /\ OpParents(graph, n) \subseteq pass.visited
    THEN [pass EXCEPT !.visited = @ \cup {n}]
    ELSE NoPass

InitForwardOf(g) ==
    /\ graph = g
    /\ \E lv \in LeafTensors(g) : data = Build(g, lv, Len(g.order))
    /\ computed = [n \in OpNodes(g) |-> FALSE]
    /\ calls = [n \in OpNodes(g) |-> 0]
    /\ computations = [n \in OpNodes(g) |-> 0]
    /\ recomputed = [n \in OpNodes(g) |-> FALSE]
    /\ pass = NoPass
    /\ panic = NoPanic

-----------------------------------------------------------------------------
(* Forward operations *)

\* Data::data_mut of an Input: the driver stores a new value in a leaf
SetData(n, t) ==
    /\ panic = NoPanic
    /\ n \in Leaves(graph)
    /\ t # data[n]
    /\ data' = [data EXCEPT ![n] = t]
    /\ pass' = IF pass.visited = {} THEN pass ELSE NoPass
    /\ UNCHANGED <<graph, computed, calls, computations, recomputed, panic>>
    /\ UNCHANGED bwdVars
    /\ UNCHANGED optVars

\* mutant: the kernel adds the operands
MultiplicationKernelAdds(out, l, r) ==
    Tensor(out.shape,
           [i \in Indices(out.shape) |->
               l.data[BroadcastIndex(l.shape, i)] + r.data[BroadcastIndex(r.shape, i)]])

\* the kernel of Multiplication::forward
MultiplicationKernel(out, l, r) == ZipMul(out.shape, l, r)

\* mutant: the kernel accumulates into the previous contents (beta = 1)
MatrixMatrixMulTKernelAccumulates(out, l, r) == GeneralMatMul(1, l, Transpose(r), 1, out)

\* the kernel of MatrixMatrixMulT::forward
MatrixMatrixMulTKernel(out, l, r) == GeneralMatMul(1, l, Transpose(r), 0, out)

\* what a forward() that computes does to the node
Compute(n, value) ==
    /\ data' = [data EXCEPT ![n] = value]
    /\ computations' = [computations EXCEPT ![n] = @ + 1]
    /\ recomputed' = [recomputed EXCEPT ![n] = ~IsZero(data[n])]

\* mutant: forward() without the was_computed gate
ForwardBodyNoGate(n, value) ==
    /\ calls' = [calls EXCEPT ![n] = @ + 1]
    /\ pass' = Visit(n)
    /\ computed' = [computed EXCEPT ![n] = TRUE]
    /\ Compute(n, value)
    /\ UNCHANGED <<graph, panic>>
    /\ UNCHANGED bwdVars
    /\ UNCHANGED optVars

\* mutant: forward() that never sets the computed flag
ForwardBodyNoSet(n, value) ==
    /\ calls' = [calls EXCEPT ![n] = @ + 1]
    /\ pass' = Visit(n)
    /\ IF computed[n]
       THEN UNCHANGED <<data, computed, computations, recomputed>>
       ELSE /\ UNCHANGED computed
            /\ Compute(n, value)
    /\ UNCHANGED <<graph, panic>>
    /\ UNCHANGED bwdVars
    /\ UNCHANGED optVars

\* the body shared by both forward(): the was_computed gate, then the kernel
ForwardBody(n, value) ==
    /\ calls' = [calls EXCEPT ![n] = @ + 1]
    /\ pass' = Visit(n)
    /\ IF computed[n]
       THEN UNCHANGED <<data, computed, computations, recomputed>>
       ELSE /\ computed' = [computed EXCEPT ![n] = TRUE]
            /\ Compute(n, value)
    /\ UNCHANGED <<graph, panic>>
    /\ UNCHANGED bwdVars
    /\ UNCHANGED optVars

Multiplication_forward(n) ==
    /\ panic = NoPanic
    /\ n \in OpNodes(graph)
    /\ graph.fwd[n].kind = "Multiplication"
    /\ calls[n] < MaxCalls
    /\ ForwardBody(n, MultiplicationKernel(data[n], data[graph.fwd[n].left],
                                           data[graph.fwd[n].right]))

MatrixMatrixMulT_forward(n) ==
    /\ panic = NoPanic
    /\ n \in OpNodes(graph)
    /\ graph.fwd[n].kind = "MatrixMatrixMulT"
    /\ calls[n] < MaxCalls
    /\ ForwardBody(n, MatrixMatrixMulTKernel(data[n], data[graph.fwd[n].left],
                                             data[graph.fwd[n].right]))

\* mutant: reset_computation() leaves the computed flag as it is
ResetComputationKeepsFlag(n) ==
    /\ panic = NoPanic
    /\ n \in OpNodes(graph)
    /\ calls' = [calls EXCEPT ![n] = 0]
    /\ computations' = [computations EXCEPT ![n] = 0]
    /\ pass' = Sweep(n)
    /\ UNCHANGED <<graph, data, computed, recomputed, panic>>
    /\ UNCHANGED bwdVars
    /\ UNCHANGED optVars

ResetComputation(n) ==
    /\ panic = NoPanic
    /\ n \in OpNodes(graph)
    /\ computed' = [computed EXCEPT ![n] = FALSE]
    /\ calls' = [calls EXCEPT ![n] = 0]
    /\ computations' = [computations EXCEPT ![n] = 0]
    /\ pass' = Sweep(n)
    /\ UNCHANGED <<graph, data, recomputed, panic>>
    /\ UNCHANGED bwdVars
    /\ UNCHANGED optVars

\* no optimizer is built over the graph
NoOptimizer ==
    /\ adam = <<>>
    /\ running = <<>>
    /\ penalised = <<>>
    /\ stepCalls = <<>>
    /\ lastOp = <<>>

NoGradState ==
    /\ gradient = <<>>
    /\ shape = <<>>
    /\ overwrite = <<>>
    /\ buffer = <<>>
    /\ pushed = <<>>
    /\ roundTrip = <<>>

InitForward ==
    /\ \E g \in ForwardGraphs : InitForwardOf(g)
    /\ NoGradState
    /\ NoOptimizer

NextForward ==
    \/ \E n \in Leaves(graph) : \E t \in graph.leafVals[n] :
          SetData(n, t)
    \/ \E n \in OpNodes(graph) : Multiplication_forward(n)
    \/ \E n \in OpNodes(graph) : MatrixMatrixMulT_forward(n)
    \/ \E n \in OpNodes(graph) : ResetComputation(n)

SpecForward == InitForward /\ [][NextForward]_vars

-----------------------------------------------------------------------------
(* Gradient reduction: the adjoint of broadcasting *)

InsertAt(j, ax, v) == SubSeq(j, 1, ax - 1) \o <<v>> \o SubSeq(j, ax, Len(j))

RemoveAt(s, ax) == SubSeq(s, 1, ax - 1) \o SubSeq(s, ax + 1, Len(s))

\* sum_axis(Axis(ax)): the axis disappears
SumAxis(t, ax) ==
    Tensor(RemoveAt(t.shape, ax),
           [j \in Indices(RemoveAt(t.shape, ax)) |->
               SumOver(1..t.shape[ax],
                       [v \in 1..t.shape[ax] |-> t.data[InsertAt(j, ax, v)]])])

\* sum_axis(Axis(ax)).insert_axis(Axis(ax)): the axis is kept with size 1
SumAxisKeep(t, ax) ==
    Tensor([t.shape EXCEPT ![ax] = 1],
           [j \in Indices([t.shape EXCEPT ![ax] = 1]) |->
               SumOver(1..t.shape[ax],
                       [v \in 1..t.shape[ax] |-> t.data[[j EXCEPT ![ax] = v]]])])

\* the leading axes that dim lacks are summed away
RECURSIVE DropLeading(_, _)
DropLeading(dim, t) ==
    IF Len(t.shape) > Len(dim) THEN DropLeading(dim, SumAxis(t, 1)) ELSE t

\* then every axis where dim has size 1 is summed, from axis ax on
RECURSIVE SumOnes(_, _, _)
SumOnes(dim, t, ax) ==
    IF ax > Len(dim) THEN t
    ELSE SumOnes(dim, IF dim[ax] = 1 THEN SumAxisKeep(t, ax) ELSE t, ax + 1)

\* mutant: the leading axes the parent lacks are kept
ReduceKeepsLeading(dim, t) ==
    IF Len(t.shape) > Len(dim) THEN t ELSE SumOnes(dim, t, 1)

\* reduce(dim, src): src summed down to the shape dim
Reduce(dim, t) == SumOnes(dim, DropLeading(dim, t), 1)

-----------------------------------------------------------------------------
(* Graphs of backward nodes.  gradShape names the InputBackward leaves;    *)
(* bwd names the backward nodes of the two families.  A unary node keeps   *)
(* diff_operand in left_grad and no_diff_operand in right_data.            *)

Unary(diff, nodiff) ==
    BwdNode("MultiplicationBackwardUnary", NoNode, diff, nodiff, NoNode)

\* x = (2), y = (3): p = MultiplicationBackward(x, gx, y, gy) is the root
ScalarGraph ==
    Graph("scalar",
          [n \in {"x", "y"} |-> <<1>>],
          [n \in {"x", "y"} |-> IF n = "x" THEN {Vec(<<2>>)} ELSE {Vec(<<3>>)}],
          NoFwd, <<>>,
          [n \in {"gx", "gy"} |-> <<1>>],
          [n \in {"p"} |-> BwdNode("MultiplicationBackward", "x", "gx", "y", "gy")],
          <<"p">>)

\* u = MultiplicationBackwardUnary(gy, x) is the root and the one child of gy
UnaryGraph ==
    Graph("unary",
          [n \in {"x"} |-> <<2>>],
          [n \in {"x"} |-> {Vec(<<1, 2>>)}],
          NoFwd, <<>>,
          [n \in {"gy"} |-> <<1>>],
          [n \in {"u"} |-> Unary("gy", "x")],
          <<"u">>)

\* p = Unary(gy, x) has the one child c = MultiplicationBackward(x, p, y, gy)
ChainGraph ==
    Graph("chain",
          [n \in {"x", "y"} |-> IF n = "x" THEN <<2>> ELSE <<1>>],
          [n \in {"x", "y"} |-> IF n = "x" THEN {Vec(<<1, 2>>)} ELSE {Vec(<<3>>)}],
          NoFwd, <<>>,
          [n \in {"gy"} |-> <<1>>],
          [n \in {"p", "c"} |->
              IF n = "p" THEN Unary("gy", "x")
                         ELSE BwdNode("MultiplicationBackward", "x", "p", "y", "gy")],
          <<"p", "c">>)

\* l (1, 2), r (2, 2): m = MatrixMatrixMulTBackward(l, gl, r, gr) is the root
MatBackGraph ==
    Graph("matback",
          [n \in {"l", "r"} |-> IF n = "l" THEN <<1, 2>> ELSE <<2, 2>>],
          [n \in {"l", "r"} |-> IF n = "l" THEN {Mat(<<<<1, 2>>>>)}
                                           ELSE {Mat(<<<<1, 2>>, <<0, 1>>>>)}],
          NoFwd, <<>>,
          [n \in {"gl", "gr"} |-> IF n = "gl" THEN <<1, 2>> ELSE <<2, 2>>],
          [n \in {"m"} |-> BwdNode("MatrixMatrixMulTBackward", "l", "gl", "r", "gr")],
          <<"m">>)

\* the gradient leaf g0 (1, 2) has the two children
\* ml = MatrixMatrixMulTBackwardLeft(g0, r) and mr = MatrixMatrixMulTBackwardRight(l, g0)
MatSideGraph ==
    Graph("matside",
          [n \in {"l", "r"} |-> IF n = "l" THEN <<1, 2>> ELSE <<2, 2>>],
          [n \in {"l", "r"} |-> IF n = "l" THEN {Mat(<<<<1, 2>>>>)}
                                           ELSE {Mat(<<<<1, 2>>, <<0, 1>>>>)}],
          NoFwd, <<>>,
          [n \in {"g0"} |-> <<1, 2>>],
          [n \in {"ml", "mr"} |->
              IF n = "ml"
              THEN BwdNode("MatrixMatrixMulTBackwardLeft", NoNode, "g0", "r", NoNode)
              ELSE BwdNode("MatrixMatrixMulTBackwardRight", "l", NoNode, NoNode, "g0")],
          <<"ml", "mr">>)

\* l = 2 x 3 ones, r = 4 x 3 ones: m = MatrixMatrixMulTBackward is the root
OnesBackGraph ==
    Graph("onesback",
          [n \in {"l", "r"} |-> IF n = "l" THEN <<2, 3>> ELSE <<4, 3>>],
          [n \in {"l", "r"} |-> IF n = "l" THEN {Fill(<<2, 3>>, 1)}
                                           ELSE {Fill(<<4, 3>>, 1)}],
          NoFwd, <<>>,
          [n \in {"gl", "gr"} |-> IF n = "gl" THEN <<2, 3>> ELSE <<4, 3>>],
          [n \in {"m"} |-> BwdNode("MatrixMatrixMulTBackward", "l", "gl", "r", "gr")],
          <<"m">>)

BackwardGraphs ==
    {ScalarGraph, UnaryGraph, ChainGraph, MatBackGraph, MatSideGraph, OnesBackGraph}

BackNodes(g) == DOMAIN g.bwd

\* the gradient parents of backward node n
GradParents(g, n) == {g.bwd[n].left_grad, g.bwd[n].right_grad} \ {NoNode}

\* the backward nodes that push to gradient node p
Children(g, p) == {c \in BackNodes(g) : p \in GradParents(g, c)}

\* the nodes no other node pushes to: the driver seeds them
Roots(g) == {n \in GradNodes(g) : Children(g, n) = {}}

\* the seeds the driver fills a root gradient with
SeedVals == {1, 2}

\* the states the driver sets an overwrite flag to: it re-arms the flag
\* before a backward pass
OverwriteStates == {TRUE}

-----------------------------------------------------------------------------
(* Construction of the backward nodes *)

\* MultiplicationBackward::new: the shape field
MultiplicationBackwardNew(lg, rg) == CobroadcastedZeros(lg, rg).shape

\* mutant: new() allocates the gradient with the shape of the differentiable
\* operand, without the broadcast against the constant
MultiplicationBackwardUnaryNewOfDiff(diff, nodiff) == diff.shape

\* MultiplicationBackwardUnary::new: the shape field
MultiplicationBackwardUnaryNew(diff, nodiff) == CobroadcastedZeros(diff, nodiff).shape

\* MatrixMatrixMulTBackward::new: the shape field
MatrixMatrixMulTBackwardNew(lg, rg) == DotDimShape(lg.shape, Transpose(rg).shape)

\* MatrixMatrixMulTBackwardLeft::new: the shape field
MatrixMatrixMulTBackwardLeftNew(lg, rd) == DotDimShape(lg.shape, Transpose(rd).shape)

\* MatrixMatrixMulTBackwardRight::new: the shape field
MatrixMatrixMulTBackwardRightNew(ld, rg) == DotDimShape(ld.shape, Transpose(rg).shape)

NewShape(nd, d, gr) ==
    CASE nd.kind = "MultiplicationBackward" ->
            MultiplicationBackwardNew(gr[nd.left_grad], gr[nd.right_grad])
      [] nd.kind = "MultiplicationBackwardUnary" ->
            MultiplicationBackwardUnaryNew(gr[nd.left_grad], d[nd.right_data])
      [] nd.kind = "MatrixMatrixMulTBackward" ->
            MatrixMatrixMulTBackwardNew(gr[nd.left_grad], gr[nd.right_grad])
      [] nd.kind = "MatrixMatrixMulTBackwardLeft" ->
            MatrixMatrixMulTBackwardLeftNew(gr[nd.left_grad], d[nd.right_data])
      [] nd.kind = "MatrixMatrixMulTBackwardRight" ->
            MatrixMatrixMulTBackwardRightNew(d[nd.left_data], gr[nd.right_grad])

\* the gradients of g built parents first: every new() allocates zeros
RECURSIVE BuildGrad(_, _, _)
BuildGrad(g, d, k) ==
    IF k = 0 THEN [n \in DOMAIN g.gradShape |-> Zeros(g.gradShape[n])]
    ELSE LET prev == BuildGrad(g, d, k - 1)
             n == g.border[k]
         IN [m \in DOMAIN prev \cup {n} |->
                IF m = n THEN Zeros(NewShape(g.bwd[n], d, prev)) ELSE prev[m]]

\* history of a gradient node nothing was pushed to since its flag was true
Untracked == [from |-> <<>>, sum |-> None, stale |-> FALSE]

InitBackwardOf(g) ==
    /\ graph = g
    /\ \E lv \in LeafTensors(g) : data = lv
    /\ computed = <<>>
    /\ calls = <<>>
    /\ computations = <<>>
    /\ recomputed = <<>>
    /\ pass = <<>>
    /\ gradient = BuildGrad(g, data, Len(g.border))
    /\ shape = [n \in GradNodes(g) |-> gradient[n].shape]
    /\ overwrite = [n \in GradNodes(g) |-> TRUE]
    /\ buffer = [n \in BackNodes(g) |->
                    IF g.bwd[n].kind \in {"MultiplicationBackward", "MultiplicationBackwardUnary"}
                    THEN Zeros(gradient[n].shape) ELSE None]
    /\ pushed = [n \in GradNodes(g) |-> Untracked]
    /\ roundTrip = [n \in GradNodes(g) |-> "none"]
    /\ panic = NoPanic

-----------------------------------------------------------------------------
(* The gradient push *)

\* the parents' gradients and flags while one backward() runs
GradState(gr, ow, pu) == [gradient |-> gr, overwrite |-> ow, pushed |-> pu]

\* history: contribution c of child reaches p, whose flag was st.overwrite[p];
\* from lists the children that pushed since the flag was true (or since
\* with_grad() zeroed the buffer), sum adds up what they pushed, stale tells
\* that the first of them found the flag true over non-zero contents
Track(st, p, c, child) ==
    [st.pushed EXCEPT ![p] =
        IF st.overwrite[p] \/ @.from = <<>>
        THEN [from |-> <<child>>, sum |-> c,
              stale |-> st.overwrite[p] /\ ~IsZero(st.gradient[p])]
        ELSE [from |-> Append(@.from, child), sum |-> Add(@.sum, c), stale |-> @.stale]]

\* push_gradient(node, src): overwrite-or-accumulate; nothing on a no-grad parent
PushGradient(st, p, c, child) ==
    IF st.gradient[p] = None THEN st
    ELSE GradState([st.gradient EXCEPT ![p] = IF st.overwrite[p] THEN c ELSE Add(@, c)],
                   [st.overwrite EXCEPT ![p] = FALSE],
                   Track(st, p, c, child))

\* push_mat_mat_gradient(fst, snd, thr): snd . thr through the same rule
PushMatMatGradient(st, p, snd, thr, child) ==
    IF st.gradient[p] = None THEN st
    ELSE GradState([st.gradient EXCEPT ![p] =
                       GeneralMatMul(1, snd, thr, IF st.overwrite[p] THEN 0 ELSE 1, @)],
                   [st.overwrite EXCEPT ![p] = FALSE],
                   Track(st, p, MatMul(snd, thr), child))

Now == GradState(gradient, overwrite, pushed)

\* the state after a backward() that ended in st, with or without a panic
Land(st, pn) ==
    /\ gradient' = st.gradient
    /\ overwrite' = st.overwrite
    /\ pushed' = st.pushed
    /\ panic' = pn
    /\ roundTrip' = [n \in DOMAIN roundTrip |->
                        IF st.gradient[n] # gradient[n] THEN "none" ELSE roundTrip[n]]
    /\ UNCHANGED <<graph, shape>>
    /\ UNCHANGED fwdVars
    /\ UNCHANGED optVars

\* the model allows a backward() only while the history has room
Room(n) == \A p \in GradParents(graph, n) : Len(pushed[p].from) < MaxPushes

-----------------------------------------------------------------------------
(* Operations of the backward nodes *)

\* Gradient::gradient: expect_tensor fails on None
GradientCall(n) ==
    /\ panic = NoPanic
    /\ n \in GradNodes(graph)
    /\ panic' = IF gradient[n] = None THEN Panic("gradient", n, n) ELSE NoPanic
    /\ UNCHANGED <<gradient, overwrite, roundTrip, pushed, buffer, shape, graph>>
    /\ UNCHANGED fwdVars
    /\ UNCHANGED optVars

\* mutant: gradient_mut() on a no-grad node allocates a buffer instead of failing
GradientMutAllocates(n, v) ==
    /\ panic = NoPanic
    /\ n \in Roots(graph)
    /\ gradient' = [gradient EXCEPT ![n] = Fill(shape[n], v)]
    /\ roundTrip' = [roundTrip EXCEPT ![n] = "none"]
    /\ UNCHANGED <<graph, shape, overwrite, buffer, pushed, panic>>
    /\ UNCHANGED fwdVars
    /\ UNCHANGED optVars

\* Gradient::gradient_mut: expect_tensor_mut fails on None; the driver fills
\* the tensor it got with the seed v
GradientMut(n, v) ==
    /\ panic = NoPanic
    /\ UNCHANGED <<overwrite, pushed, buffer, shape, graph>>
    /\ UNCHANGED fwdVars
    /\ UNCHANGED optVars
    /\ n \in Roots(graph)
    /\ IF gradient[n] = None
       THEN /\ panic' = Panic("gradient_mut", n, n)
            /\ UNCHANGED <<gradient, roundTrip>>
       ELSE /\ gradient' = [gradient EXCEPT ![n] = Fill(@.shape, v)]
            /\ roundTrip' = [roundTrip EXCEPT ![n] = "none"]
            /\ UNCHANGED panic

\* Overwrite::set_overwrite
SetOverwrite(n, state) ==
    /\ panic = NoPanic
    /\ n \in GradNodes(graph)
    /\ overwrite[n] # state
    /\ overwrite' = [overwrite EXCEPT ![n] = state]
    /\ pushed' = [pushed EXCEPT ![n] = Untracked]
    /\ UNCHANGED <<graph, gradient, shape, buffer, roundTrip, panic>>
    /\ UNCHANGED fwdVars
    /\ UNCHANGED optVars

\* Backward::no_grad
NoGrad(n) ==
    /\ panic = NoPanic
    /\ n \in GradNodes(graph)
    /\ gradient' = [gradient EXCEPT ![n] = None]
    /\ roundTrip' = [roundTrip EXCEPT ![n] =
                        IF gradient[n] = None THEN @
                        ELSE IF IsZero(gradient[n]) THEN "none" ELSE "dropped"]
    /\ UNCHANGED <<graph, shape, overwrite, buffer, pushed, panic>>
    /\ UNCHANGED fwdVars
    /\ UNCHANGED optVars

\* mutant: with_grad() allocates the buffer with the shape of the scratch of
\* another node (the gradient parent's shape)
WithGradValueOfParent(n) ==
    IF n \in BackNodes(graph)
    THEN Zeros(shape[CHOOSE p \in GradParents(graph, n) : TRUE])
    ELSE Zeros(shape[n])

\* the buffer with_grad() allocates: Tensor::zeros(self.shape)
WithGradValue(n) == Zeros(shape[n])

\* mutant: with_grad() also sets the overwrite flag again
WithGradResetsFlag(n) ==
    /\ panic = NoPanic
    /\ n \in GradNodes(graph)
    /\ gradient' = [gradient EXCEPT ![n] = WithGradValue(n)]
    /\ overwrite' = [overwrite EXCEPT ![n] = TRUE]
    /\ roundTrip' = [roundTrip EXCEPT ![n] = IF @ = "dropped" THEN "restored" ELSE "none"]
    /\ pushed' = [pushed EXCEPT ![n] = Untracked]
    /\ UNCHANGED <<graph, shape, buffer, panic>>
    /\ UNCHANGED fwdVars
    /\ UNCHANGED optVars

\* Backward::with_grad
WithGrad(n) ==
    /\ panic = NoPanic
    /\ n \in GradNodes(graph)
    /\ gradient' = [gradient EXCEPT ![n] = WithGradValue(n)]
    /\ roundTrip' = [roundTrip EXCEPT ![n] = IF @ = "dropped" THEN "restored" ELSE "none"]
    /\ pushed' = [pushed EXCEPT ![n] = Untracked]
    /\ UNCHANGED <<graph, shape, overwrite, buffer, panic>>
    /\ UNCHANGED fwdVars
    /\ UNCHANGED optVars

\* the scratch of a multiplication backward: gradient times the broadcast value
Scratch(g, value) == ZipMul(g.shape, g, value)

\* mutant: the scratch for the left parent is taken from the left value
ForLeftUsesLeft(n) == Scratch(gradient[n], data[graph.bwd[n].left_data])

\* MultiplicationBackward::backward, the scratch for the left parent
ForLeft(n) == Scratch(gradient[n], data[graph.bwd[n].right_data])

\* MultiplicationBackward::backward, the scratch for the right parent
ForRight(n) == Scratch(gradient[n], data[graph.bwd[n].left_data])

\* mutant: backward() stores each contribution in place of the parent's
\* gradient without looking at the parent's flag
MultiplicationBackward_backwardAssigns(n) ==
    LET nd == graph.bwd[n]
        cl == Reduce(gradient[nd.left_grad].shape, ForLeft(n))
        cr == Reduce(gradient[nd.right_grad].shape, ForRight(n))
        st1 == GradState([gradient EXCEPT ![nd.left_grad] = cl],
                         [overwrite EXCEPT ![nd.left_grad] = FALSE],
                         Track(Now, nd.left_grad, cl, n))
        st2 == GradState([st1.gradient EXCEPT ![nd.right_grad] = cr],
                         [st1.overwrite EXCEPT ![nd.right_grad] = FALSE],
                         Track(st1, nd.right_grad, cr, n))
    IN /\ panic = NoPanic
       /\ n \in BackNodes(graph)
       /\ nd.kind = "MultiplicationBackward"
       /\ Room(n)
       /\ gradient[n] # None
       /\ gradient[nd.left_grad] # None
       /\ gradient[nd.right_grad] # None
       /\ Land(st2, NoPanic)
       /\ buffer' = [buffer EXCEPT ![n] = ForRight(n)]

\* mutant: backward() adds each contribution to the parent's gradient
\* without looking at the parent's flag
MultiplicationBackward_backwardAdds(n) ==
    LET nd == graph.bwd[n]
        cl == Reduce(gradient[nd.left_grad].shape, ForLeft(n))
        cr == Reduce(gradient[nd.right_grad].shape, ForRight(n))
        st1 == GradState([gradient EXCEPT ![nd.left_grad] = Add(@, cl)],
                         [overwrite EXCEPT ![nd.left_grad] = FALSE],
                         Track(Now, nd.left_grad, cl, n))
        st2 == GradState([st1.gradient EXCEPT ![nd.right_grad] = Add(@, cr)],
                         [st1.overwrite EXCEPT ![nd.right_grad] = FALSE],
                         Track(st1, nd.right_grad, cr, n))
    IN /\ panic = NoPanic
       /\ n \in BackNodes(graph)
       /\ nd.kind = "MultiplicationBackward"
       /\ Room(n)
       /\ gradient[n] # None
       /\ gradient[nd.left_grad] # None
       /\ gradient[nd.right_grad] # None
       /\ Land(st2, NoPanic)
       /\ buffer' = [buffer EXCEPT ![n] = ForRight(n)]

\* MultiplicationBackward::backward
MultiplicationBackward_backward(n) ==
    LET nd == graph.bwd[n]
        g == gradient[n]
        forLeft == ForLeft(n)
        st1 == PushGradient(Now, nd.left_grad,
                            Reduce(gradient[nd.left_grad].shape, forLeft), n)
        forRight == ForRight(n)
        st2 == PushGradient(st1, nd.right_grad,
                            Reduce(st1.gradient[nd.right_grad].shape, forRight), n)
    IN /\ panic = NoPanic
       /\ n \in BackNodes(graph)
       /\ nd.kind = "MultiplicationBackward"
       /\ Room(n)
       /\ CASE g = None ->
                  Land(Now, Panic("backward", n, n)) /\ UNCHANGED buffer
            [] g # None /\ gradient[nd.left_grad] = None ->
                  /\ Land(Now, Panic("backward", n, nd.left_grad))
                  /\ buffer' = [buffer EXCEPT ![n] = forLeft]
            [] g # None /\ gradient[nd.left_grad] # None
                        /\ st1.gradient[nd.right_grad] = None ->
                  /\ Land(st1, Panic("backward", n, nd.right_grad))
                  /\ buffer' = [buffer EXCEPT ![n] = forRight]
            [] OTHER ->
                  /\ Land(st2, NoPanic)
                  /\ buffer' = [buffer EXCEPT ![n] = forRight]

\* mutant: backward() pushes the reduced gradient, not multiplied by the constant
MultiplicationBackwardUnary_backwardUnscaled(n) ==
    LET nd == graph.bwd[n]
        g == gradient[n]
        st1 == PushGradient(Now, nd.left_grad, Reduce(gradient[nd.left_grad].shape, g), n)
    IN /\ panic = NoPanic
       /\ n \in BackNodes(graph)
       /\ nd.kind = "MultiplicationBackwardUnary"
       /\ Room(n)
       /\ CASE g = None ->
                  Land(Now, Panic("backward", n, n)) /\ UNCHANGED buffer
            [] g # None /\ gradient[nd.left_grad] = None ->
                  /\ Land(Now, Panic("backward", n, nd.left_grad))
                  /\ buffer' = [buffer EXCEPT ![n] = g]
            [] OTHER ->
                  /\ Land(st1, NoPanic)
                  /\ buffer' = [buffer EXCEPT ![n] = g]

\* MultiplicationBackwardUnary::backward
MultiplicationBackwardUnary_backward(n) ==
    LET nd == graph.bwd[n]
        g == gradient[n]
        scratch == Scratch(g, data[nd.right_data])
        st1 == PushGradient(Now, nd.left_grad,
                            Reduce(gradient[nd.left_grad].shape, scratch), n)
    IN /\ panic = NoPanic
       /\ n \in BackNodes(graph)
       /\ nd.kind = "MultiplicationBackwardUnary"
       /\ Room(n)
       /\ CASE g = None ->
                  Land(Now, Panic("backward", n, n)) /\ UNCHANGED buffer
            [] g # None /\ gradient[nd.left_grad] = None ->
                  /\ Land(Now, Panic("backward", n, nd.left_grad))
                  /\ buffer' = [buffer EXCEPT ![n] = scratch]
            [] OTHER ->
                  /\ Land(st1, NoPanic)
                  /\ buffer' = [buffer EXCEPT ![n] = scratch]

\* mutant: backward() makes the left push only
MatrixMatrixMulTBackward_backwardLeftOnly(n) ==
    LET nd == graph.bwd[n]
        g == gradient[n]
        st1 == PushMatMatGradient(Now, nd.left_grad, g, data[nd.right_data], n)
    IN /\ panic = NoPanic
       /\ n \in BackNodes(graph)
       /\ nd.kind = "MatrixMatrixMulTBackward"
       /\ Room(n)
       /\ IF g = None THEN Land(Now, Panic("backward", n, n)) ELSE Land(st1, NoPanic)
       /\ UNCHANGED buffer

\* MatrixMatrixMulTBackward::backward
MatrixMatrixMulTBackward_backward(n) ==
    LET nd == graph.bwd[n]
        g == gradient[n]
        st1 == PushMatMatGradient(Now, nd.left_grad, g, data[nd.right_data], n)
        st2 == PushMatMatGradient(st1, nd.right_grad, Transpose(g), data[nd.left_data], n)
    IN /\ panic = NoPanic
       /\ n \in BackNodes(graph)
       /\ nd.kind = "MatrixMatrixMulTBackward"
       /\ Room(n)
       /\ IF g = None THEN Land(Now, Panic("backward", n, n)) ELSE Land(st2, NoPanic)
       /\ UNCHANGED buffer

\* mutant: the left push multiplies by the transposed right value
MatrixMatrixMulTBackwardLeft_backwardTransposed(n) ==
    LET nd == graph.bwd[n]
        g == gradient[n]
        st1 == PushMatMatGradient(Now, nd.left_grad, g, Transpose(data[nd.right_data]), n)
    IN /\ panic = NoPanic
       /\ n \in BackNodes(graph)
       /\ nd.kind = "MatrixMatrixMulTBackwardLeft"
       /\ Room(n)
       /\ IF g = None THEN Land(Now, Panic("backward", n, n)) ELSE Land(st1, NoPanic)
       /\ UNCHANGED buffer

\* MatrixMatrixMulTBackwardLeft::backward
MatrixMatrixMulTBackwardLeft_backward(n) ==
    LET nd == graph.bwd[n]
        g == gradient[n]
        st1 == PushMatMatGradient(Now, nd.left_grad, g, data[nd.right_data], n)
    IN /\ panic = NoPanic
       /\ n \in BackNodes(graph)
       /\ nd.kind = "MatrixMatrixMulTBackwardLeft"
       /\ Room(n)
       /\ IF g = None THEN Land(Now, Panic("backward", n, n)) ELSE Land(st1, NoPanic)
       /\ UNCHANGED buffer

\* mutant: backward() consumes the node's own gradient: it is zero afterwards
MatrixMatrixMulTBackwardRight_backwardConsumes(n) ==
    LET nd == graph.bwd[n]
        g == gradient[n]
        st1 == PushMatMatGradient(Now, nd.right_grad, Transpose(g), data[nd.left_data], n)
        st2 == [st1 EXCEPT !.gradient[n] = Zeros(shape[n])]
    IN /\ panic = NoPanic
       /\ n \in BackNodes(graph)
       /\ nd.kind = "MatrixMatrixMulTBackwardRight"
       /\ Room(n)
       /\ IF g = None THEN Land(Now, Panic("backward", n, n)) ELSE Land(st2, NoPanic)
       /\ UNCHANGED buffer

\* MatrixMatrixMulTBackwardRight::backward
MatrixMatrixMulTBackwardRight_backward(n) ==
    LET nd == graph.bwd[n]
        g == gradient[n]
        st1 == PushMatMatGradient(Now, nd.right_grad, Transpose(g), data[nd.left_data], n)
    IN /\ panic = NoPanic
       /\ n \in BackNodes(graph)
       /\ nd.kind = "MatrixMatrixMulTBackwardRight"
       /\ Room(n)
       /\ IF g = None THEN Land(Now, Panic("backward", n, n)) ELSE Land(st1, NoPanic)
       /\ UNCHANGED buffer

Init ==
    /\ \E g \in BackwardGraphs : InitBackwardOf(g)
    /\ NoOptimizer

Next ==
    \/ \E n \in GradNodes(graph) : GradientCall(n)
    \/ \E n \in GradNodes(graph) : \E v \in SeedVals : GradientMut(n, v)
    \/ \E n \in GradNodes(graph) : \E b \in OverwriteStates : SetOverwrite(n, b)
    \/ \E n \in GradNodes(graph) : NoGrad(n)
    \/ \E n \in GradNodes(graph) : WithGrad(n)
    \/ \E n \in BackNodes(graph) : MultiplicationBackward_backward(n)
    \/ \E n \in BackNodes(graph) : MultiplicationBackwardUnary_backward(n)
    \/ \E n \in BackNodes(graph) : MatrixMatrixMulTBackward_backward(n)
    \/ \E n \in BackNodes(graph) : MatrixMatrixMulTBackwardLeft_backward(n)
    \/ \E n \in BackNodes(graph) : MatrixMatrixMulTBackwardRight_backward(n)

Spec == Init /\ [][Next]_vars

-----------------------------------------------------------------------------
(* Properties of the forward nodes, checked under SpecForward *)

LeftOf(n) == data[graph.fwd[n].left]

RightOf(n) == data[graph.fwd[n].right]

IsForward(n) == Multiplication_forward(n) \/ MatrixMatrixMulT_forward(n)

\* C1: between two reset_computation() calls, a node on which forward() was
\* called at least once (the ancestor of a diamond is called once per path)
\* has had its cached value written exactly once.
C1_OncePerPass ==
    \A n \in OpNodes(graph) : calls[n] >= 1 => computations[n] = 1

\* C1 witness: a whole pass over the diamond, the ancestor called once per path
C1_Witness ==
    /\ graph.name = "diamond"
    /\ calls["a"] = 2
    /\ computations["a"] = 1
    /\ \A n \in {"s1", "s2", "d"} : computed[n] /\ ~IsZero(data[n])

\* C4: forward() on a computed node returns at once and leaves the cached
\* value as it is, whatever the parents hold now; on a node that is not
\* computed it writes the value and leaves was_computed() true.
C4_ForwardIdempotent ==
    [][\A n \in OpNodes(graph) :
          IsForward(n) =>
             /\ computed'[n]
             /\ computed[n] => data'[n] = data[n] /\ computations'[n] = computations[n]
             /\ ~computed[n] => computations'[n] = computations[n] + 1]_vars

\* C4 witness: a second forward() call found the node computed although a
\* parent had changed since: the cached value is not the product of the parents
C4_Witness ==
    \E n \in OpNodes(graph) :
        /\ calls[n] = 2
        /\ computed[n]
        /\ graph.fwd[n].kind = "Multiplication"
        /\ data[n] # ZipMul(data[n].shape, LeftOf(n), RightOf(n))

\* C8: a Multiplication.forward() that computes sets each element to the
\* product of the operands' elements at the index the NumPy broadcast shows
\* there, and the value has the NumPy broadcast of the operands' shapes.
C8_MultiplicationValue ==
    [][\A n \in OpNodes(graph) :
          (Multiplication_forward(n) /\ ~computed[n]) =>
             LET l == LeftOf(n)
                 r == RightOf(n)
                 v == data'[n]
                 rk == Max2(Len(l.shape), Len(r.shape))
             IN /\ Len(v.shape) = rk
                /\ \A k \in 1..rk :
                      v.shape[k] = Max2(Pad(l.shape, rk)[k], Pad(r.shape, rk)[k])
                /\ DOMAIN v.data = Indices(v.shape)
                /\ \A i \in Indices(v.shape) :
                      v.data[i] = l.data[BroadcastIndex(l.shape, i)]
                                    * r.data[BroadcastIndex(r.shape, i)]]_vars

\* C8 witness: (1, 2) times the column (1; 3) is the 2 x 2 tensor (1 2; 3 6)
C8_Witness ==
    /\ graph.name = "rank"
    /\ data["x"] = Vec(<<1, 2>>)
    /\ data["y"] = Mat(<<<<1>>, <<3>>>>)
    /\ computed["p"]
    /\ data["p"] = Mat(<<<<1, 2>>, <<3, 6>>>>)

\* C9: a MatrixMatrixMulT.forward() that computes leaves left . right^T, of
\* shape (rows(left), rows(right)), whatever the output buffer held before.
C9_MatrixMatrixMulTValue ==
    [][\A n \in OpNodes(graph) :
          (MatrixMatrixMulT_forward(n) /\ ~computed[n]) =>
             LET l == LeftOf(n)
                 r == RightOf(n)
                 v == data'[n]
             IN /\ v.shape = <<l.shape[1], r.shape[1]>>
                /\ DOMAIN v.data = Indices(v.shape)
                /\ \A i \in Indices(v.shape) :
                      v.data[i] = SumOver(1..l.shape[2],
                                          [k \in 1..l.shape[2] |->
                                              l.data[<<i[1], k>>] * r.data[<<i[2], k>>]])]_vars

\* C9 witness: 2 x 3 ones times (4 x 3 ones)^T, computed a second time after a
\* reset over the first result, is again the 2 x 4 tensor of 3
C9_Witness ==
    /\ graph.name = "ones"
    /\ recomputed["m"]
    /\ computed["m"]
    /\ data["m"] = Fill(<<2, 4>>, 3)

-----------------------------------------------------------------------------
(* Properties of the backward nodes, checked under Spec *)

IsBackward(n) ==
    \/ MultiplicationBackward_backward(n)
    \/ MultiplicationBackwardUnary_backward(n)
    \/ MatrixMatrixMulTBackward_backward(n)
    \/ MatrixMatrixMulTBackwardLeft_backward(n)
    \/ MatrixMatrixMulTBackwardRight_backward(n)

\* the parents with a gradient buffer that one backward() of n pushes to
Present(n) == \A p \in GradParents(graph, n) \cup {n} : gradient[p] # None

\* what backward() of child c contributes to its gradient parent p
ContributionOf(c, p) ==
    LET nd == graph.bwd[c]
        g == gradient[c]
    IN CASE nd.kind = "MultiplicationBackward" /\ p = nd.left_grad ->
               Reduce(gradient[p].shape, ZipMul(g.shape, g, data[nd.right_data]))
         [] nd.kind = "MultiplicationBackward" /\ p = nd.right_grad ->
               Reduce(gradient[p].shape, ZipMul(g.shape, g, data[nd.left_data]))
         [] nd.kind = "MultiplicationBackwardUnary" ->
               Reduce(gradient[p].shape, ZipMul(g.shape, g, data[nd.right_data]))
         [] nd.kind \in {"MatrixMatrixMulTBackward", "MatrixMatrixMulTBackwardLeft"}
              /\ p = nd.left_grad ->
               MatMul(g, data[nd.right_data])
         [] OTHER ->
               MatMul(Transpose(g), data[nd.left_data])

\* C2: a parent with two children, its flag true before the first push, holds
\* the sum of the two contributions once each child has pushed, in either order.
C2_TwoChildrenSum ==
    \A p \in GradNodes(graph) :
        \A a, b \in Children(graph, p) :
            (/\ a # b
             /\ Children(graph, p) = {a, b}
             /\ pushed[p].from = <<a, b>>
             /\ gradient[p] # None)
            => gradient[p] = pushed[p].sum

\* C2 witness: in the chain, gy got the contribution of c = (1, 2) . g and then
\* that of p, with g = 1: 3 + (3 * 1 + 3 * 2) = 12
C2_Witness ==
    /\ graph.name = "chain"
    /\ pushed["gy"].from = <<"c", "p">>
    /\ gradient["c"] = Fill(<<2>>, 1)
    /\ gradient["p"] = Fill(<<2>>, 3)
    /\ gradient["gy"] = Vec(<<12>>)

\* C3 as stated: after the backward() of its one child, a parent holds that
\* child's contribution, whatever it held before.
C3_Original ==
    [][\A c \in BackNodes(graph) : \A p \in GradParents(graph, c) :
          (Children(graph, p) = {c} /\ Present(c) /\ IsBackward(c))
             => gradient'[p] = ContributionOf(c, p)]_vars

\* C3 amended: after the backward() of its one child, a parent whose overwrite
\* flag was true holds that child's contribution, whatever it held before.
C3_OneChildOverwrites ==
    [][\A c \in BackNodes(graph) : \A p \in GradParents(graph, c) :
          (Children(graph, p) = {c} /\ overwrite[p] /\ Present(c) /\ IsBackward(c))
             => gradient'[p] = ContributionOf(c, p)]_vars

\* C3 witness: gy, the parent of the unary node u alone, held a non-zero
\* gradient with its flag true, and holds the contribution of u: 1 * 1 + 1 * 2
C3_Witness ==
    /\ graph.name = "unary"
    /\ pushed["gy"].from = <<"u">>
    /\ pushed["gy"].stale
    /\ gradient["u"] = Fill(<<2>>, 1)
    /\ gradient["gy"] = Vec(<<3>>)

\* the shape new() computes for backward node n, from the operands' shapes
RECURSIVE ConstructionShape(_, _)
ConstructionShape(g, n) ==
    IF n \in DOMAIN g.gradShape THEN g.gradShape[n]
    ELSE LET nd == g.bwd[n]
             NumPy(a, b) ==
                 [k \in 1..Max2(Len(a), Len(b)) |->
                     Max2(Pad(a, Max2(Len(a), Len(b)))[k], Pad(b, Max2(Len(a), Len(b)))[k])]
         IN CASE nd.kind = "MultiplicationBackward" ->
                    NumPy(ConstructionShape(g, nd.left_grad),
                          ConstructionShape(g, nd.right_grad))
              [] nd.kind = "MultiplicationBackwardUnary" ->
                    NumPy(ConstructionShape(g, nd.left_grad), g.leafShape[nd.right_data])
              [] nd.kind = "MatrixMatrixMulTBackward" ->
                    <<ConstructionShape(g, nd.left_grad)[1],
                      ConstructionShape(g, nd.right_grad)[1]>>
              [] nd.kind = "MatrixMatrixMulTBackwardLeft" ->
                    <<ConstructionShape(g, nd.left_grad)[1], g.leafShape[nd.right_data][1]>>
              [] OTHER ->
                    <<g.leafShape[nd.left_data][1], ConstructionShape(g, nd.right_grad)[1]>>

\* C5: no_grad() leaves no buffer, and with_grad() after it leaves a buffer of
\* zeros with the shape fixed at construction, whatever was held before.
C5_NoGradRoundTrip ==
    [][\A n \in BackNodes(graph) :
          /\ NoGrad(n) => gradient'[n] = None
          /\ (gradient[n] = None /\ WithGrad(n)) =>
                /\ gradient'[n] # None
                /\ gradient'[n].shape = ConstructionShape(graph, n)
                /\ DOMAIN gradient'[n].data = Indices(ConstructionShape(graph, n))
                /\ IsZero(gradient'[n])]_vars

\* C5 witness: p of the chain held a non-zero gradient, was detached and
\* attached again: it holds zeros of the broadcast shape (2), not that of gy
C5_Witness ==
    /\ graph.name = "chain"
    /\ roundTrip["p"] = "restored"
    /\ gradient["p"] = Zeros(<<2>>)
    /\ shape["gy"] = <<1>>

\* C6: gradient() and gradient_mut() fail exactly when the buffer is None, and
\* backward() on a node whose own buffer is None fails and changes no
\* gradient, flag or scratch.
\* (a step that breaks "fails exactly when None" for n is neither a gradient()
\* nor a gradient_mut() of n; a gradient() that succeeds changes nothing)
C6_NoGradPanics ==
    [][/\ \A n \in GradNodes(graph) :
             \/ (panic' # NoPanic <=> gradient[n] = None)
             \/ /\ ~GradientCall(n)
                /\ \A v \in SeedVals : ~GradientMut(n, v)
       /\ \A n \in BackNodes(graph) :
             (gradient[n] = None /\ IsBackward(n)) =>
                 /\ panic' = Panic("backward", n, n)
                 /\ UNCHANGED <<gradient, overwrite, buffer>>]_vars

\* C6 witness: backward() of the detached c of the chain failed; its parents
\* p and gy keep the gradients an earlier backward() gave them
C6_Witness ==
    /\ graph.name = "chain"
    /\ panic = Panic("backward", "c", "c")
    /\ gradient["c"] = None
    /\ gradient["p"] = Fill(<<2>>, 3)
    /\ gradient["gy"] = Vec(<<3>>)

\* what the overwrite-or-accumulate rule leaves in p for contribution c
Pushed(p, c) == IF overwrite[p] THEN c ELSE Add(gradient[p], c)

\* C7: MultiplicationBackward.backward() pushes to the left parent the
\* reduction of gradient * broadcast(right value) and to the right parent the
\* reduction of gradient * broadcast(left value).
C7_MultiplicationBackward ==
    [][\A n \in BackNodes(graph) :
          (Present(n) /\ MultiplicationBackward_backward(n)) =>
             LET nd == graph.bwd[n]
                 g == gradient[n]
                 l == data[nd.left_data]
                 r == data[nd.right_data]
                 timesRight == Tensor(g.shape, [i \in Indices(g.shape) |->
                                   g.data[i] * r.data[BroadcastIndex(r.shape, i)]])
                 timesLeft == Tensor(g.shape, [i \in Indices(g.shape) |->
                                   g.data[i] * l.data[BroadcastIndex(l.shape, i)]])
             IN /\ gradient'[nd.left_grad] =
                      Pushed(nd.left_grad, Reduce(gradient[nd.left_grad].shape, timesRight))
                /\ gradient'[nd.right_grad] =
                      Pushed(nd.right_grad, Reduce(gradient[nd.right_grad].shape, timesLeft))]_vars

\* C7 witness: left = (2), right = (3), gradient = (1): the left parent holds
\* (3) and the right parent (2)
C7_Witness ==
    /\ graph.name = "scalar"
    /\ data["x"] = Vec(<<2>>)
    /\ data["y"] = Vec(<<3>>)
    /\ gradient["p"] = Vec(<<1>>)
    /\ pushed["gx"].from = <<"p">>
    /\ gradient["gx"] = Vec(<<3>>)
    /\ gradient["gy"] = Vec(<<2>>)

\* C10: MatrixMatrixMulTBackward.backward() pushes gradient . right value to
\* the left parent and gradient^T . left value to the right parent, each
\* through the overwrite-or-accumulate rule.
C10_MatrixMatrixMulTBackward ==
    [][\A n \in BackNodes(graph) :
          (Present(n) /\ MatrixMatrixMulTBackward_backward(n)) =>
             LET nd == graph.bwd[n]
                 g == gradient[n]
                 l == data[nd.left_data]
                 r == data[nd.right_data]
                 gr == Tensor(<<g.shape[1], r.shape[2]>>,
                              [i \in Indices(<<g.shape[1], r.shape[2]>>) |->
                                  SumOver(1..g.shape[2],
                                          [k \in 1..g.shape[2] |->
                                              g.data[<<i[1], k>>] * r.data[<<k, i[2]>>]])])
                 gtl == Tensor(<<g.shape[2], l.shape[2]>>,
                               [i \in Indices(<<g.shape[2], l.shape[2]>>) |->
                                   SumOver(1..g.shape[1],
                                           [k \in 1..g.shape[1] |->
                                               g.data[<<k, i[1]>>] * l.data[<<k, i[2]>>]])])
             IN /\ gradient'[nd.left_grad] = Pushed(nd.left_grad, gr)
                /\ gradient'[nd.right_grad] = Pushed(nd.right_grad, gtl)]_vars

\* C10 witness: left = 2 x 3 ones, right = 4 x 3 ones, gradient = 2 x 4 ones:
\* the left parent holds 2 x 3 of 4 and the right parent 4 x 3 of 2
C10_Witness ==
    /\ graph.name = "onesback"
    /\ gradient["m"] = Fill(<<2, 4>>, 1)
    /\ pushed["gl"].from = <<"m">>
    /\ gradient["gl"] = Fill(<<2, 3>>, 4)
    /\ gradient["gr"] = Fill(<<4, 3>>, 2)

-----------------------------------------------------------------------------
(* The Adam optimizer.  f32 is modelled in fixed point: the integer v      *)
(* stands for v / Scale and every operation rounds to the nearest unit.    *)

\* units per 1.0
Scale == 1000

\* steps of one parameter
MaxSteps == 2

\* a / b for b > 0, rounded to the nearest unit
RoundDiv(a, b) ==
    IF a >= 0 THEN (2 * a + b) \div (2 * b) ELSE -((2 * (-a) + b) \div (2 * b))

\* f32 product
FMul(a, b) == RoundDiv(a * b, Scale)

\* f32 quotient; 0 / b is 0 for every denominator the code divides by
FDiv(a, b) ==
    IF a = 0 THEN 0
    ELSE IF b > 0 THEN RoundDiv(a * Scale, b) ELSE -RoundDiv(a * Scale, -b)

\* f32::sqrt
FSqrt(a) ==
    LET n == a * Scale
        r == CHOOSE x \in 0..Max2(a, Scale) : x * x <= n /\ n < (x + 1) * (x + 1)
    IN IF n - r * r <= r THEN r ELSE r + 1

\* f32::powi
RECURSIVE Powi(_, _)
Powi(b, t) == IF t = 0 THEN Scale ELSE FMul(Powi(b, t - 1), b)

\* Penalty::penalise: no penalty, or the L2 penalty 2 * lambda * w with lambda = 0.5
PenaltyVals == {"none", "l2"}

Penalise(penalty, el) == IF penalty = "none" THEN 0 ELSE el

\* the parameters handed to Adam::new: Param::get gives the two views
ParamIds == {"w", "b"}

ParamData == [w |-> Vec(<<Scale>>), b |-> Vec(<<Scale, 2 * Scale>>)]

\* gradients a backward pass leaves in the parameter
GradVals(p) ==
    IF p = "w" THEN {Vec(<<Scale>>), Vec(<<-Scale>>), Vec(<<0>>)}
    ELSE {Vec(<<Scale, -Scale>>), Vec(<<0, 2 * Scale>>)}

\* lr, betas and eps handed to Adam::new; an eps of 1e-8 is below one unit
HyperVals ==
    {[lr |-> 100, betas |-> <<900, 999>>, eps |-> 0],
     [lr |-> 500, betas |-> <<500, 500>>, eps |-> 1],
     [lr |-> 100, betas |-> <<0, 0>>, eps |-> 1]}

\* mutant: the counter starts at 1
AdamParamFromStepOne(data_, grad) ==
    [data |-> data_, grad |-> grad, step |-> 1,
     exp_avg |-> Zeros(grad.shape), exp_avg_sq |-> Zeros(grad.shape)]

\* AdamParam::from
AdamParamFrom(data_, grad) ==
    [data |-> data_, grad |-> grad, step |-> 0,
     exp_avg |-> Zeros(grad.shape), exp_avg_sq |-> Zeros(grad.shape)]

\* Adam::new
AdamNew(grads, hyper, penalty) ==
    [params |-> [p \in ParamIds |-> AdamParamFrom(ParamData[p], grads[p])],
     lr |-> hyper.lr, penalty |-> penalty, betas |-> hyper.betas, eps |-> hyper.eps]

Idle == [op |-> "idle", pending |-> {}]

NoCalls == [first |-> 0, second |-> 0]

\* no step() or zero_grad() since the gradients were last written
NoOp == [op |-> "none", at |-> <<>>]

\* no graph is modelled next to the optimizer
NoGraphState ==
    /\ graph = <<>>
    /\ data = <<>>
    /\ computed = <<>>
    /\ calls = <<>>
    /\ computations = <<>>
    /\ recomputed = <<>>
    /\ pass = <<>>
    /\ panic = NoPanic

InitAdam ==
    /\ NoGraphState
    /\ NoGradState
    /\ \E hyper \in HyperVals : \E penalty \in PenaltyVals :
       \E grads \in [ParamIds -> UNION {GradVals(p) : p \in ParamIds}] :
          /\ \A p \in ParamIds : grads[p] \in GradVals(p)
          /\ adam = AdamNew(grads, hyper, penalty)
    /\ running = Idle
    /\ penalised = [p \in ParamIds |-> NoCalls]
    /\ stepCalls = 0
    /\ lastOp = NoOp

-----------------------------------------------------------------------------
(* Operations of the optimizer *)

\* the backward pass of the next training step writes the gradient view
SetGrad(p, t) ==
    /\ running = Idle
    /\ t # adam.params[p].grad
    /\ adam' = [adam EXCEPT !.params[p].grad = t]
    /\ lastOp' = NoOp
    /\ UNCHANGED <<running, penalised, stepCalls>>
    /\ UNCHANGED <<graph, panic>>
    /\ UNCHANGED fwdVars
    /\ UNCHANGED bwdVars

\* the arguments of the penalise() calls the first-moment closure makes for
\* one element (adam.rs 101)
FirstMomentCalls(grad_el) == <<grad_el>>

\* the arguments of the penalise() calls the second-moment closure makes for
\* one element (adam.rs 108-109)
SecondMomentCalls(grad_el) == <<grad_el, grad_el>>

\* exp_avg_el * beta1 + (grad_el + penalise(grad_el)) * (1 - beta1)
FirstMoment(exp_avg_el, grad_el, penalty, beta1) ==
    LET c == FirstMomentCalls(grad_el)
    IN FMul(exp_avg_el, beta1) + FMul(grad_el + Penalise(penalty, c[1]), Scale - beta1)

\* exp_avg_sq_el * beta2
\*   + (grad_el + penalise(grad_el)) * (grad_el + penalise(grad_el)) * (1 - beta2)
SecondMoment(exp_avg_sq_el, grad_el, penalty, beta2) ==
    LET c == SecondMomentCalls(grad_el)
    IN FMul(exp_avg_sq_el, beta2)
       + FMul(FMul(grad_el + Penalise(penalty, c[1]), grad_el + Penalise(penalty, c[2])),
              Scale - beta2)

\* mutant: the update without the two bias corrections
UpdateUncorrected(exp_avg_el, exp_avg_sq_el, bc1, bc2, lr, eps) ==
    FMul(FDiv(exp_avg_el, FSqrt(exp_avg_sq_el) + eps), -lr)

\* exp_avg_el / ((exp_avg_sq_el.sqrt() / bias_correction2.sqrt()) + eps)
\*   * (-lr / bias_correction1)
Update(exp_avg_el, exp_avg_sq_el, bc1, bc2, lr, eps) ==
    FMul(FDiv(exp_avg_el, FDiv(FSqrt(exp_avg_sq_el), FSqrt(bc2)) + eps), FDiv(-lr, bc1))

\* the counter the bias corrections use: *step += 1 comes first
StepOf(param) == param.step + 1

\* 1. - beta.powi(*step as i32)
BiasCorrection(beta, t) == Scale - Powi(beta, t)

\* mutant: the closures share one counter, that of the first parameter
StepParamValueSharedStep(param, a) ==
    LET t == StepOf(a.params["w"])
        bc1 == BiasCorrection(a.betas[1], t)
        bc2 == BiasCorrection(a.betas[2], t)
        I == DOMAIN param.grad.data
        m == [i \in I |-> FirstMoment(param.exp_avg.data[i], param.grad.data[i],
                                      a.penalty, a.betas[1])]
        v == [i \in I |-> SecondMoment(param.exp_avg_sq.data[i], param.grad.data[i],
                                       a.penalty, a.betas[2])]
    IN [data |-> Tensor(param.data.shape,
                        [i \in I |-> param.data.data[i]
                                        + Update(m[i], v[i], bc1, bc2, a.lr, a.eps)]),
        grad |-> param.grad,
        step |-> param.step + 1,
        exp_avg |-> Tensor(param.exp_avg.shape, m),
        exp_avg_sq |-> Tensor(param.exp_avg_sq.shape, v)]

\* the closure of step() on one parameter
StepParamValue(param, a) ==
    LET t == StepOf(param)
        bc1 == BiasCorrection(a.betas[1], t)
        bc2 == BiasCorrection(a.betas[2], t)
        I == DOMAIN param.grad.data
        m == [i \in I |-> FirstMoment(param.exp_avg.data[i], param.grad.data[i],
                                      a.penalty, a.betas[1])]
        v == [i \in I |-> SecondMoment(param.exp_avg_sq.data[i], param.grad.data[i],
                                       a.penalty, a.betas[2])]
    IN [data |-> Tensor(param.data.shape,
                        [i \in I |-> param.data.data[i]
                                        + Update(m[i], v[i], bc1, bc2, a.lr, a.eps)]),
        grad |-> param.grad,
        step |-> param.step + 1,
        exp_avg |-> Tensor(param.exp_avg.shape, m),
        exp_avg_sq |-> Tensor(param.exp_avg_sq.shape, v)]

\* the penalise() calls of the closure of step() on one parameter
StepParamCalls(param) ==
    [first |-> SumOver(DOMAIN param.grad.data,
                       [i \in DOMAIN param.grad.data |->
                           Len(FirstMomentCalls(param.grad.data[i]))]),
     second |-> SumOver(DOMAIN param.grad.data,
                        [i \in DOMAIN param.grad.data |->
                            Len(SecondMomentCalls(param.grad.data[i]))])]

\* what is left of a par_iter_mut once the closure ran on p
Done(p) ==
    IF running.pending = {p} THEN Idle ELSE [running EXCEPT !.pending = @ \ {p}]

\* Optimizer::step: params.par_iter_mut().for_each(...) starts
Step ==
    /\ running = Idle
    /\ \A p \in ParamIds : adam.params[p].step < MaxSteps
    /\ running' = [op |-> "step", pending |-> ParamIds]
    /\ penalised' = [p \in ParamIds |-> NoCalls]
    /\ stepCalls' = stepCalls + 1
    /\ lastOp' = [op |-> "step", at |-> adam]
    /\ UNCHANGED <<adam, graph, panic>>
    /\ UNCHANGED fwdVars
    /\ UNCHANGED bwdVars

\* Optimizer::step: the closure runs on parameter p
StepParam(p) ==
    /\ running.op = "step"
    /\ p \in running.pending
    /\ adam' = [adam EXCEPT !.params[p] = StepParamValue(@, adam)]
    /\ penalised' = [penalised EXCEPT ![p] = StepParamCalls(adam.params[p])]
    /\ running' = Done(p)
    /\ UNCHANGED <<graph, panic, stepCalls, lastOp>>
    /\ UNCHANGED fwdVars
    /\ UNCHANGED bwdVars

\* Optimizer::zero_grad: params.par_iter_mut().for_each(...) starts
ZeroGrad ==
    /\ running = Idle
    /\ running' = [op |-> "zero_grad", pending |-> ParamIds]
    /\ lastOp' = [op |-> "zero_grad", at |-> adam]
    /\ UNCHANGED <<adam, penalised, stepCalls, graph, panic>>
    /\ UNCHANGED fwdVars
    /\ UNCHANGED bwdVars

\* mutant: zero_grad() clears the first-moment estimate with the gradient
ZeroGradValueClearsMoment(param) ==
    [param EXCEPT !.grad = Zeros(@.shape), !.exp_avg = Zeros(@.shape)]

\* Zip::from(grad).for_each(|grad_el| *grad_el = 0.)
ZeroGradValue(param) ==
    [param EXCEPT !.grad = Tensor(@.shape, [i \in DOMAIN @.data |-> 0])]

\* Optimizer::zero_grad: the closure runs on parameter p
ZeroGradParam(p) ==
    /\ running.op = "zero_grad"
    /\ p \in running.pending
    /\ adam' = [adam EXCEPT !.params[p] = ZeroGradValue(@)]
    /\ running' = Done(p)
    /\ UNCHANGED <<penalised, stepCalls, lastOp, graph, panic>>
    /\ UNCHANGED fwdVars
    /\ UNCHANGED bwdVars

NextAdam ==
    \/ \E p \in ParamIds : \E t \in GradVals(p) : SetGrad(p, t)
    \/ Step
    \/ \E p \in ParamIds : StepParam(p)
    \/ ZeroGrad
    \/ \E p \in ParamIds : ZeroGradParam(p)

SpecAdam == InitAdam /\ [][NextAdam]_vars

-----------------------------------------------------------------------------
(* Properties of the optimizer, checked under SpecAdam *)

\* C11: zero_grad() sets every element of every parameter's gradient to zero
\* and leaves every value, both moment estimates and every step counter
\* unchanged.
C11_ZeroGradFrame ==
    [][/\ \A p \in ParamIds :
             ZeroGradParam(p) =>
                 /\ adam'.params[p].grad.shape = adam.params[p].grad.shape
                 /\ \A i \in Indices(adam.params[p].grad.shape) :
                       adam'.params[p].grad.data[i] = 0
                 /\ adam'.params[p].data = adam.params[p].data
                 /\ adam'.params[p].exp_avg = adam.params[p].exp_avg
                 /\ adam'.params[p].exp_avg_sq = adam.params[p].exp_avg_sq
                 /\ adam'.params[p].step = adam.params[p].step
                 /\ \A q \in ParamIds \ {p} : adam'.params[q] = adam.params[q]
       /\ (running.op = "zero_grad" /\ running'.op = "idle") =>
             \A p \in ParamIds : IsZero(adam'.params[p].grad)]_vars

\* C11 witness: zero_grad() has run on both parameters after a step(): the
\* gradients are zero, the counters 1 and the first moments not zero
C11_Witness ==
    /\ running = Idle
    /\ \A p \in ParamIds :
          /\ IsZero(adam.params[p].grad)
          /\ adam.params[p].step = 1
          /\ ~IsZero(adam.params[p].exp_avg)
          /\ ~IsZero(adam.params[p].exp_avg_sq)

-----------------------------------------------------------------------------
(* reduce() on its own: a gradient of the broadcast shape and a parent     *)
(* value of the native shape                                               *)

\* <<broadcast shape, native shape>> of the cases
ReduceShapes ==
    {<<<<2, 2>>, <<2, 2>>>>, <<<<2, 2>>, <<1, 2>>>>, <<<<2, 2>>, <<2, 1>>>>,
     <<<<2, 2>>, <<1, 1>>>>, <<<<2, 2>>, <<2>>>>, <<<<2, 2>>, <<1>>>>,
     <<<<2>>, <<1>>>>, <<<<2, 1, 2>>, <<1, 2>>>>, <<<<1, 2>>, <<2>>>>}

TensorsOf(s, V) == {Tensor(s, f) : f \in [Indices(s) -> V]}

InitReduce ==
    /\ \E c \in ReduceShapes :
          /\ graph = [name |-> "reduce", broadcast |-> c[1], native |-> c[2]]
          /\ \E g \in TensorsOf(c[1], {0, 1, 2}) : buffer = [src |-> g]
          /\ \E x \in TensorsOf(c[2], {1, 2}) : data = [x |-> x]
    /\ gradient = [reduced |-> None]
    /\ shape = <<>>
    /\ overwrite = <<>>
    /\ pushed = <<>>
    /\ roundTrip = <<>>
    /\ computed = <<>>
    /\ calls = <<>>
    /\ computations = <<>>
    /\ recomputed = <<>>
    /\ pass = <<>>
    /\ panic = NoPanic
    /\ NoOptimizer

\* let reduced = reduce(self.left_grad.gradient().raw_dim(), &buffer)
ReduceCall ==
    /\ gradient.reduced = None
    /\ gradient' = [reduced |-> Reduce(data.x.shape, buffer.src)]
    /\ UNCHANGED <<graph, data, buffer, shape, overwrite, pushed, roundTrip>>
    /\ UNCHANGED <<computed, calls, computations, recomputed, pass, panic>>
    /\ UNCHANGED optVars

NextReduce == ReduceCall

SpecReduce == InitReduce /\ [][NextReduce]_vars

\* <a, broadcast(b)>: the inner product of a with b seen at a's shape
Inner(a, b) ==
    SumOver(Indices(a.shape),
            [i \in Indices(a.shape) |-> a.data[i] * b.data[BroadcastIndex(b.shape, i)]])

\* C12: reduce(g) has exactly the parent's shape, each element is the sum of
\* g over the axes the parent has with size 1 and over the leading axes it
\* lacks, and <g, broadcast(x)> = <reduce(g), x>.
C12_ReduceAdjoint ==
    gradient.reduced # None =>
        LET g == buffer.src
            x == data.x
            red == gradient.reduced
        IN /\ red.shape = x.shape
           /\ DOMAIN red.data = Indices(x.shape)
           /\ \A j \in Indices(x.shape) :
                 red.data[j] =
                    SumOver({i \in Indices(g.shape) : BroadcastIndex(x.shape, i) = j},
                            [i \in Indices(g.shape) |-> g.data[i]])
           /\ Inner(g, x) = Inner(red, x)

\* C12 witness: ((1, 2), (0, 1)) reduced to the shape (2, 1) is ((3), (1)),
\* and with x = ((1), (2)) both inner products are 5
C12_Witness ==
    /\ graph.name = "reduce"
    /\ buffer.src = Mat(<<<<1, 2>>, <<0, 1>>>>)
    /\ data.x = Mat(<<<<1>>, <<2>>>>)
    /\ gradient.reduced = Mat(<<<<3>>, <<1>>>>)
    /\ Inner(buffer.src, data.x) = 5

-----------------------------------------------------------------------------
(* new() on its own: one constructor called on two operands of any shapes  *)

ElementwiseKinds == {"Multiplication", "MultiplicationBackward"}

MatrixKinds == {"MatrixMatrixMulT", "MatrixMatrixMulTBackward"}

ForwardKinds == {"Multiplication", "MatrixMatrixMulT"}

\* shapes of the operands handed to the elementwise constructors
ElementwiseShapes == {<<1>>, <<2>>, <<3>>, <<2, 1>>, <<1, 2>>, <<2, 3>>, <<3, 2>>}

\* shapes of the operands handed to the matrix constructors
MatrixShapes == {<<1, 2>>, <<2, 2>>, <<2, 3>>, <<4, 3>>, <<3, 2>>}

InitNew ==
    /\ \E k \in ElementwiseKinds \cup MatrixKinds :
       \E l, r \in IF k \in ElementwiseKinds THEN ElementwiseShapes ELSE MatrixShapes :
          /\ graph = [name |-> "new", kind |-> k]
          /\ data = [left |-> Fill(l, 1), right |-> Fill(r, 1), out |-> None]
    /\ gradient = [out |-> None]
    /\ shape = [out |-> <<>>]
    /\ overwrite = [out |-> FALSE]
    /\ buffer = [out |-> None]
    /\ pushed = <<>>
    /\ roundTrip = <<>>
    /\ computed = [out |-> FALSE]
    /\ calls = <<>>
    /\ computations = <<>>
    /\ recomputed = <<>>
    /\ pass = <<>>
    /\ panic = NoPanic
    /\ NoOptimizer

\* mutant: the matrix constructors hand DotDim::shape the right operand as it
\* is, without .t()
NewCompatibleUntransposed(k, l, r) ==
    IF k \in ElementwiseKinds THEN Broadcastable(l.shape, r.shape)
    ELSE DotDimCompatible(l.shape, r.shape)

\* the check cobroadcasted_zeros(left, right) / DotDim::shape(left, right.t())
\* makes before it returns a shape
NewCompatible(k, l, r) ==
    IF k \in ElementwiseKinds THEN Broadcastable(l.shape, r.shape)
    ELSE DotDimCompatible(l.shape, Transpose(r).shape)

\* Multiplication::new and MatrixMatrixMulT::new: the node returned
NewForward(k, l, r) ==
    /\ data' = [data EXCEPT !.out = NewData(k, l, r)]
    /\ UNCHANGED <<gradient, shape, overwrite, buffer, computed>>

\* MultiplicationBackward::new and MatrixMatrixMulTBackward::new: the node
\* returned
NewBackward(k, l, r) ==
    LET s == IF k = "MultiplicationBackward" THEN MultiplicationBackwardNew(l, r)
             ELSE MatrixMatrixMulTBackwardNew(l, r)
    IN /\ gradient' = [out |-> Zeros(s)]
       /\ shape' = [out |-> s]
       /\ overwrite' = [out |-> TRUE]
       /\ buffer' = [out |-> IF k = "MultiplicationBackward" THEN Zeros(s) ELSE None]
       /\ UNCHANGED <<data, computed>>

\* one call of new(left, right)
New ==
    /\ panic = NoPanic
    /\ data.out = None
    /\ gradient.out = None
    /\ IF NewCompatible(graph.kind, data.left, data.right)
       THEN /\ IF graph.kind \in ForwardKinds
               THEN NewForward(graph.kind, data.left, data.right)
               ELSE NewBackward(graph.kind, data.left, data.right)
            /\ UNCHANGED panic
       ELSE /\ panic' = Panic("new", graph.kind, NoNode)
            /\ UNCHANGED <<data, gradient, shape, overwrite, buffer, computed>>
    /\ UNCHANGED <<graph, pushed, roundTrip, calls, computations, recomputed, pass>>
    /\ UNCHANGED optVars

NextNew == New

SpecNew == InitNew /\ [][NextNew]_vars

\* the operands of the constructor cannot be combined: an axis, counted from
\* the last, where the sizes differ and neither is 1; matrices whose column
\* counts differ
Incompatible ==
    LET l == data.left.shape
        r == data.right.shape
    IN IF graph.kind \in ElementwiseKinds
       THEN \E k \in 0..(Len(l) - 1) :
               /\ k < Len(r)
               /\ l[Len(l) - k] # r[Len(r) - k]
               /\ l[Len(l) - k] # 1
               /\ r[Len(r) - k] # 1
       ELSE l[2] # r[2]

\* C13: new() on incompatible operand shapes fails fatally and returns no
\* node; on compatible shapes it returns a node with its shape fixed.
C13_NewFailsOnIncompatible ==
    [][New =>
          IF Incompatible
          THEN /\ panic' # NoPanic
               /\ data'.out = None
               /\ gradient'.out = None
          ELSE LET l == data.left.shape
                   r == data.right.shape
                   n == Max2(Len(l), Len(r))
                   out == IF graph.kind \in ForwardKinds THEN data'.out ELSE gradient'.out
               IN /\ panic' = NoPanic
                  /\ out # None
                  /\ out.shape = IF graph.kind \in ElementwiseKinds
                                 THEN [k \in 1..n |-> Max2(Pad(l, n)[k], Pad(r, n)[k])]
                                 ELSE <<l[1], r[1]>>]_vars

\* C13 witness: MatrixMatrixMulTBackward::new on a 2 x 3 and a 3 x 2 matrix
\* failed and built no node
C13_Witness ==
    /\ graph.name = "new"
    /\ graph.kind = "MatrixMatrixMulTBackward"
    /\ data.left.shape = <<2, 3>>
    /\ data.right.shape = <<3, 2>>
    /\ panic = Panic("new", "MatrixMatrixMulTBackward", NoNode)
    /\ gradient.out = None

\* the gradient elements of parameter p
NumEl(p) == Cardinality(Indices(adam.params[p].grad.shape))

\* C14: in one step() penalise is called exactly once per gradient element
\* in the first-moment update and exactly once per gradient element in the
\* second-moment update.
C14_PenaliseOncePerElement ==
    [][\A p \in ParamIds :
          StepParam(p) =>
              /\ penalised'[p].first = NumEl(p)
              /\ penalised'[p].second = NumEl(p)]_vars

\* the optimizer of the single-step example: lr = 0.1, betas = (0.9, 0.999),
\* eps = 1e-8 and a penalty that returns 0
ExampleOptimizer ==
    /\ adam.lr = 100
    /\ adam.betas = <<900, 999>>
    /\ adam.eps = 0
    /\ adam.penalty = "none"

\* C15: with lr = 0.1, betas = (0.9, 0.999), eps = 1e-8 and no penalty, the
\* first step() on the scalar parameter of value 1.0 and gradient 1.0 (or
\* -1.0) moves the value by lr against the gradient's sign, to 0.9 (or 1.1)
\* within one unit of the resolution; the zero_grad() that follows makes the
\* gradient 0.0 and leaves the moments and the counter, 1, as they are.
C15_SingleStepExample ==
    [][ExampleOptimizer =>
          LET w == adam.params["w"]
              g == w.grad.data[<<1>>]
              after == adam'.params["w"]
          IN /\ (StepParam("w") /\ w.step = 0 /\ w.data = Vec(<<Scale>>)
                    /\ g \in {Scale, -Scale}) =>
                   LET moved == after.data.data[<<1>>] - Scale
                       lr == IF g > 0 THEN -adam.lr ELSE adam.lr
                   IN /\ moved - lr \in -1..1
                      /\ after.step = 1
             /\ (ZeroGradParam("w") /\ w.step = 1) =>
                   /\ after.grad = Vec(<<0>>)
                   /\ after.exp_avg = w.exp_avg
                   /\ after.exp_avg_sq = w.exp_avg_sq
                   /\ after.step = 1
                   /\ after.data = w.data]_vars

\* C15 witness: after the step and the zero_grad() of the example the value
\* is 0.9, the gradient 0.0, the counter 1 and the moments 0.1 and 0.001
C15_Witness ==
    /\ ExampleOptimizer
    /\ running = Idle
    /\ adam.params["w"].data = Vec(<<900>>)
    /\ adam.params["w"].grad = Vec(<<0>>)
    /\ adam.params["w"].step = 1
    /\ adam.params["w"].exp_avg = Vec(<<100>>)
    /\ adam.params["w"].exp_avg_sq = Vec(<<1>>)
    /\ IsZero(adam.params["b"].grad)


-----------------------------------------------------------------------------
(* The push to a no-grad parent, checked under Spec *)

\* C16: a backward() of a child whose gradient is present, pushing to a parent
\* whose gradient buffer is None, completes without failure and leaves that
\* parent's gradient buffer and overwrite flag as they were.
C16_NoGradPushNoOp ==
    [][\A c \in BackNodes(graph) : \A p \in GradParents(graph, c) :
          (gradient[p] = None /\ gradient[c] # None /\ IsBackward(c))
             => /\ panic' = NoPanic
                /\ gradient'[p] = None
                /\ overwrite'[p] = overwrite[p]]_vars

\* C17: each push of a backward() follows the overwrite-or-accumulate rule: a
\* parent whose flag is true ends with exactly the reduced contribution, a
\* parent whose flag is false with the contribution added to what it held, and
\* after the backward() of a child every parent of it that has a gradient
\* buffer has its overwrite flag false.
C17_OverwriteOrAccumulate ==
    [][\A c \in BackNodes(graph) : \A p \in GradParents(graph, c) :
          (gradient[p] # None /\ gradient[c] # None /\ IsBackward(c))
             => /\ gradient'[p] = Pushed(p, ContributionOf(c, p))
                /\ overwrite'[p] = FALSE]_vars

-----------------------------------------------------------------------------
(* The computed flag over a forward pass, checked under SpecForward *)

\* the operation of op node n applied to the values its parents hold now
OpValue(n) ==
    IF graph.fwd[n].kind = "Multiplication"
    THEN ZipMul(data[n].shape, LeftOf(n), RightOf(n))
    ELSE MatMul(LeftOf(n), Transpose(RightOf(n)))

\* a pass is complete: every node was reset, then every node was visited,
\* parents before children, and no leaf was written since the first visit
PassDone == OpNodes(graph) # {} /\ pass.visited = OpNodes(graph)

\* C18: was_computed() is false at construction, becomes true only through
\* forward() and false only through reset_computation(); the first forward()
\* after a reset writes the operation applied to the parents' current values;
\* and after a pass that was preceded by a reset of every node and visited
\* parents before children, every node's value is its operation applied to its
\* parents' current values.
C18_ComputedFlagOverPass ==
    /\ \A n \in OpNodes(graph) : ~computed[n]
    /\ [][\A n \in OpNodes(graph) :
             /\ (computed'[n] /\ ~computed[n]) => IsForward(n)
             /\ (~computed'[n] /\ computed[n]) => ResetComputation(n)
             /\ (ResetComputation(n) /\ computed[n]) => ~computed'[n]
             /\ (IsForward(n) /\ ~computed[n]) => data'[n] = OpValue(n)]_vars
    /\ [](PassDone => \A n \in OpNodes(graph) : data[n] = OpValue(n))

\* C18 witness: a second pass over the diamond, after the leaves changed, has
\* replaced every value of the first pass
C18_Witness ==
    /\ graph.name = "diamond"
    /\ PassDone
    /\ \A n \in OpNodes(graph) : recomputed[n] /\ computed[n] /\ data[n] = OpValue(n)

-----------------------------------------------------------------------------
(* The shape of a gradient buffer, checked under Spec *)

\* C19: in every reachable state the gradient buffer of a backward node, when
\* present, has the shape computed at construction, and that is the shape of
\* the paired forward node's value: the broadcast of the operands' shapes for
\* a multiplication, (rows(left), rows(right)) for MatrixMatrixMulT.
C19_GradientKeepsShape ==
    \A n \in BackNodes(graph) :
        /\ shape[n] = ConstructionShape(graph, n)
        /\ gradient[n] # None =>
              /\ gradient[n].shape = shape[n]
              /\ DOMAIN gradient[n].data = Indices(shape[n])

\* C19 witness: in the chain, p (broadcast of (1) and (2)) holds the
\* contribution of c, and c was detached and attached again since
C19_Witness ==
    /\ graph.name = "chain"
    /\ pushed["p"].from = <<"c">>
    /\ gradient["p"] = Fill(<<2>>, 3)
    /\ roundTrip["c"] = "restored"
    /\ gradient["c"] = Zeros(<<2>>)

-----------------------------------------------------------------------------
(* The unary multiplication backward node, checked under SpecUnary *)

\* d = (3), k = (1, 2): the unary u = MultiplicationBackwardUnary(gd, k) and
\* the binary b = MultiplicationBackward(d, gd, k, gk) are two roots over the
\* same differentiable operand and the same constant
PairGraph ==
    Graph("pair",
          [n \in {"d", "k"} |-> IF n = "d" THEN <<1>> ELSE <<2>>],
          [n \in {"d", "k"} |-> IF n = "d" THEN {Vec(<<3>>)} ELSE {Vec(<<1, 2>>)}],
          NoFwd, <<>>,
          [n \in {"gd", "gk"} |-> IF n = "gd" THEN <<1>> ELSE <<2>>],
          [n \in {"u", "b"} |->
              IF n = "u" THEN Unary("gd", "k")
                         ELSE BwdNode("MultiplicationBackward", "d", "gd", "k", "gk")],
          <<"u", "b">>)

InitUnary ==
    /\ InitBackwardOf(PairGraph)
    /\ NoOptimizer

NextUnary ==
    \/ \E n \in GradNodes(graph) : \E v \in SeedVals : GradientMut(n, v)
    \/ \E n \in GradNodes(graph) : \E b \in OverwriteStates : SetOverwrite(n, b)
    \/ \E n \in BackNodes(graph) : MultiplicationBackward_backward(n)
    \/ \E n \in BackNodes(graph) : MultiplicationBackwardUnary_backward(n)

SpecUnary == InitUnary /\ [][NextUnary]_vars

\* a MultiplicationBackward node b that has p as a gradient parent and the
\* data node v as the value of its other operand
BinaryOver(b, p, v) ==
    /\ graph.bwd[b].kind = "MultiplicationBackward"
    /\ \/ graph.bwd[b].left_grad = p /\ graph.bwd[b].right_data = v
       \/ graph.bwd[b].right_grad = p /\ graph.bwd[b].left_data = v

\* C20: MultiplicationBackwardUnary.backward() pushes to its differentiable
\* operand the reduction of gradient * broadcast(constant value), which is the
\* contribution a MultiplicationBackward over the same operand and the same
\* constant pushes for the same upstream gradient; it makes exactly one push
\* and changes nothing in the operand that is not differentiable.
C20_UnaryAsBinary ==
    [][\A n \in BackNodes(graph) :
          (Present(n) /\ MultiplicationBackwardUnary_backward(n)) =>
             LET nd == graph.bwd[n]
                 diff == nd.left_grad
                 g == gradient[n]
                 v == data[nd.right_data]
                 contribution ==
                     Reduce(gradient[diff].shape,
                            Tensor(g.shape, [i \in Indices(g.shape) |->
                                g.data[i] * v.data[BroadcastIndex(v.shape, i)]]))
             IN /\ gradient'[diff] = Pushed(diff, contribution)
                /\ \A b \in BackNodes(graph) :
                      (BinaryOver(b, diff, nd.right_data) /\ gradient[b] = g)
                         => ContributionOf(b, diff) = contribution
                /\ pushed'[diff].from =
                      IF overwrite[diff] \/ pushed[diff].from = <<>>
                      THEN <<n>> ELSE Append(pushed[diff].from, n)
                /\ \A q \in GradNodes(graph) \ {diff} :
                      /\ gradient'[q] = gradient[q]
                      /\ overwrite'[q] = overwrite[q]
                      /\ pushed'[q] = pushed[q]
                /\ data' = data]_vars

\* C20 witness: u and b hold the same gradient (1, 1); u has pushed
\* 1 * 1 + 1 * 2 to gd and nothing to gk
C20_Witness ==
    /\ graph.name = "pair"
    /\ BinaryOver("b", "gd", "k")
    /\ pushed["gd"].from = <<"u">>
    /\ pushed["gk"].from = <<>>
    /\ gradient["u"] = Fill(<<2>>, 1)
    /\ gradient["b"] = Fill(<<2>>, 1)
    /\ gradient["gd"] = Vec(<<3>>)

-----------------------------------------------------------------------------
(* The partial MatrixMatrixMulT backward nodes, checked under SpecSide *)

\* l (1, 2), r (2, 2): the full m = MatrixMatrixMulTBackward(l, gl, r, gr) and
\* the partial ml = MatrixMatrixMulTBackwardLeft(gl, r) and
\* mr = MatrixMatrixMulTBackwardRight(l, gr) are three roots over the same
\* operands
SideGraph ==
    Graph("side",
          [n \in {"l", "r"} |-> IF n = "l" THEN <<1, 2>> ELSE <<2, 2>>],
          [n \in {"l", "r"} |-> IF n = "l" THEN {Mat(<<<<1, 2>>>>)}
                                           ELSE {Mat(<<<<1, 2>>, <<0, 1>>>>)}],
          NoFwd, <<>>,
          [n \in {"gl", "gr"} |-> IF n = "gl" THEN <<1, 2>> ELSE <<2, 2>>],
          [n \in {"m", "ml", "mr"} |->
              CASE n = "m" -> BwdNode("MatrixMatrixMulTBackward", "l", "gl", "r", "gr")
                [] n = "ml" -> BwdNode("MatrixMatrixMulTBackwardLeft", NoNode, "gl", "r", NoNode)
                [] OTHER -> BwdNode("MatrixMatrixMulTBackwardRight", "l", NoNode, NoNode, "gr")],
          <<"m", "ml", "mr">>)

InitSide ==
    /\ InitBackwardOf(SideGraph)
    /\ NoOptimizer

\* the full node m is seeded; the backward() calls are those of the partial nodes
NextSide ==
    \/ \E n \in GradNodes(graph) : \E v \in SeedVals : GradientMut(n, v)
    \/ \E n \in GradNodes(graph) : \E b \in OverwriteStates : SetOverwrite(n, b)
    \/ \E n \in BackNodes(graph) : MatrixMatrixMulTBackwardLeft_backward(n)
    \/ \E n \in BackNodes(graph) : MatrixMatrixMulTBackwardRight_backward(n)

SpecSide == InitSide /\ [][NextSide]_vars

\* a full MatrixMatrixMulTBackward node b over the operands of the partial
\* node n on the side of gradient parent p
FullOver(b, n, p) ==
    /\ graph.bwd[b].kind = "MatrixMatrixMulTBackward"
    /\ \/ /\ graph.bwd[n].kind = "MatrixMatrixMulTBackwardLeft"
          /\ graph.bwd[b].left_grad = p
          /\ graph.bwd[b].right_data = graph.bwd[n].right_data
       \/ /\ graph.bwd[n].kind = "MatrixMatrixMulTBackwardRight"
          /\ graph.bwd[b].right_grad = p
          /\ graph.bwd[b].left_data = graph.bwd[n].left_data

\* one push of n reached p and nothing else changed
OnlyPush(n, p) ==
    /\ pushed'[p].from =
          IF overwrite[p] \/ pushed[p].from = <<>>
          THEN <<n>> ELSE Append(pushed[p].from, n)
    /\ \A q \in GradNodes(graph) \ {p} :
          /\ gradient'[q] = gradient[q]
          /\ overwrite'[q] = overwrite[q]
          /\ pushed'[q] = pushed[q]
    /\ data' = data

\* C21: MatrixMatrixMulTBackwardLeft.backward() makes the left push alone,
\* gradient . right value, and MatrixMatrixMulTBackwardRight.backward() the
\* right push alone, gradient^T . left value; each is the contribution the full
\* MatrixMatrixMulTBackward pushes to that side for the same gradient, and the
\* other operand is left as it was.
C21_PartialAsFull ==
    [][\A n \in BackNodes(graph) :
          /\ (Present(n) /\ MatrixMatrixMulTBackwardLeft_backward(n)) =>
                LET nd == graph.bwd[n]
                    g == gradient[n]
                    r == data[nd.right_data]
                    gr == Tensor(<<g.shape[1], r.shape[2]>>,
                                 [i \in Indices(<<g.shape[1], r.shape[2]>>) |->
                                     SumOver(1..g.shape[2],
                                             [k \in 1..g.shape[2] |->
                                                 g.data[<<i[1], k>>] * r.data[<<k, i[2]>>]])])
                IN /\ gradient'[nd.left_grad] = Pushed(nd.left_grad, gr)
                   /\ \A b \in BackNodes(graph) :
                         (FullOver(b, n, nd.left_grad) /\ gradient[b] = g)
                            => ContributionOf(b, nd.left_grad) = gr
                   /\ OnlyPush(n, nd.left_grad)
          /\ (Present(n) /\ MatrixMatrixMulTBackwardRight_backward(n)) =>
                LET nd == graph.bwd[n]
                    g == gradient[n]
                    l == data[nd.left_data]
                    gtl == Tensor(<<g.shape[2], l.shape[2]>>,
                                  [i \in Indices(<<g.shape[2], l.shape[2]>>) |->
                                      SumOver(1..g.shape[1],
                                              [k \in 1..g.shape[1] |->
                                                  g.data[<<k, i[1]>>] * l.data[<<k, i[2]>>]])])
                IN /\ gradient'[nd.right_grad] = Pushed(nd.right_grad, gtl)
                   /\ \A b \in BackNodes(graph) :
                         (FullOver(b, n, nd.right_grad) /\ gradient[b] = g)
                            => ContributionOf(b, nd.right_grad) = gtl
                   /\ OnlyPush(n, nd.right_grad)]_vars

\* C21 witness: m, ml and mr hold the gradient (1 1); ml has pushed
\* (1 1) . r = (1 3) to gl and mr has pushed (1 1)^T . l = (1 2; 1 2) to gr
C21_Witness ==
    /\ graph.name = "side"
    /\ FullOver("m", "ml", "gl") /\ FullOver("m", "mr", "gr")
    /\ \A n \in {"m", "ml", "mr"} : gradient[n] = Fill(<<1, 2>>, 1)
    /\ pushed["gl"].from = <<"ml">>
    /\ pushed["gr"].from = <<"mr">>
    /\ gradient["gl"] = Mat(<<<<1, 3>>>>)
    /\ gradient["gr"] = Mat(<<<<1, 2>>, <<1, 2>>>>)

-----------------------------------------------------------------------------
(* The step counter of Adam, checked under SpecAdam *)

\* C22: a parameter starts with counter 0 and zero moments of the gradient's
\* shape; the closure of step() adds exactly one to the counter and computes
\* the bias corrections from the incremented counter, which is at least 1, so
\* for betas in [0, 1) neither 1 - beta1^t nor 1 - beta2^t is zero; and once k
\* calls of step() are over, every parameter's counter is k.
C22_StepCounter ==
    /\ \A p \in ParamIds :
          /\ adam.params[p].step = 0
          /\ adam.params[p].exp_avg = Zeros(adam.params[p].grad.shape)
          /\ adam.params[p].exp_avg_sq = Zeros(adam.params[p].grad.shape)
    /\ [][\A p \in ParamIds :
             StepParam(p) =>
                LET before == adam.params[p]
                    after == adam'.params[p]
                    t == StepOf(before)
                IN /\ after.step = before.step + 1
                   /\ t = after.step
                   /\ t >= 1
                   /\ \A i \in 1..2 :
                         adam.betas[i] \in 0..(Scale - 1)
                            => BiasCorrection(adam.betas[i], t) # 0]_vars
    /\ [](running = Idle => \A p \in ParamIds : adam.params[p].step = stepCalls)

\* C22 witness: two calls of step() with betas (0.9, 0.999) are over and both
\* counters are 2
C22_Witness ==
    /\ running = Idle
    /\ stepCalls = 2
    /\ adam.betas = <<900, 999>>
    /\ \A p \in ParamIds : adam.params[p].step = 2

-----------------------------------------------------------------------------
(* The per-parameter closures run in parallel, checked under SpecAdam *)

\* what the closure of the last operation makes of parameter p of the
\* optimizer the operation started on
ClosureOf(p) ==
    IF lastOp.op = "step" THEN StepParamValue(lastOp.at.params[p], lastOp.at)
    ELSE ZeroGradValue(lastOp.at.params[p])

\* C23: a closure of step() or zero_grad() writes its own parameter only, from
\* that parameter's fields and the shared lr, betas, eps and penalty, which
\* nobody writes; so in whatever order the closures of one call have run, each
\* parameter they ran on holds what its closure makes of the parameter as it
\* was when the call started, and the others are as they were.
C23_ParallelClosures ==
    /\ [][\A p \in ParamIds :
             (StepParam(p) \/ ZeroGradParam(p)) =>
                /\ \A q \in ParamIds \ {p} : adam'.params[q] = adam.params[q]
                /\ <<adam'.lr, adam'.betas, adam'.eps, adam'.penalty>>
                      = <<adam.lr, adam.betas, adam.eps, adam.penalty>>]_vars
    /\ [](lastOp.op # "none" =>
             \A p \in ParamIds :
                adam.params[p] = IF p \in running.pending THEN lastOp.at.params[p]
                                 ELSE ClosureOf(p))

\* C23 witness: a second step() is over; w, whose closure ran last or first,
\* and b hold what their closures make of the parameters the call started on,
\* which had different counters' worth of moments behind them
C23_Witness ==
    /\ running = Idle
    /\ lastOp.op = "step"
    /\ lastOp.at.params["w"].step = 1
    /\ adam.params["w"].step = 2
    /\ adam.params["b"].step = 2
    /\ adam.params["w"].data # lastOp.at.params["w"].data
    /\ adam.params["b"].data # lastOp.at.params["b"].data

-----------------------------------------------------------------------------
(* The overwrite flag over two backward passes, checked under SpecFlag *)

\* the gradient leaves of the graph: the parameters an optimizer is built on
ParamNodes(g) == DOMAIN g.gradShape

\* the closure of Adam::zero_grad on the parameter whose grad view is the
\* gradient buffer of leaf p: the elements are set to zero through the view
ZeroGradView(p) ==
    /\ panic = NoPanic
    /\ p \in ParamNodes(graph)
    /\ gradient[p] # None
    /\ gradient' = [gradient EXCEPT ![p] = ZeroGradValue([grad |-> @]).grad]
    /\ roundTrip' = [roundTrip EXCEPT ![p] = "none"]
    /\ UNCHANGED <<graph, shape, overwrite, buffer, pushed, panic>>
    /\ UNCHANGED fwdVars
    /\ UNCHANGED optVars

InitFlag ==
    /\ InitBackwardOf(ChainGraph)
    /\ NoOptimizer

NextFlag ==
    \/ \E n \in GradNodes(graph) : \E v \in SeedVals : GradientMut(n, v)
    \/ \E n \in GradNodes(graph) : \E b \in OverwriteStates : SetOverwrite(n, b)
    \/ \E n \in BackNodes(graph) : NoGrad(n)
    \/ \E n \in BackNodes(graph) : WithGrad(n)
    \/ \E n \in BackNodes(graph) : MultiplicationBackward_backward(n)
    \/ \E n \in BackNodes(graph) : MultiplicationBackwardUnary_backward(n)
    \/ \E p \in ParamNodes(graph) : ZeroGradView(p)

SpecFlag == InitFlag /\ [][NextFlag]_vars

\* C24: the overwrite flag of a gradient node is true at construction; a flag
\* that is false becomes true through set_overwrite(true) alone, so
\* backward(), no_grad(), with_grad() and zero_grad() leave it false; and a
\* backward() that finds a parent's flag false adds its contribution to what
\* the parent's buffer holds, be it the gradient of the pass before, the zeros
\* of zero_grad() or the zeros of a no_grad()/with_grad() round trip.
C24_FlagStaysFalse ==
    /\ \A n \in GradNodes(graph) : overwrite[n]
    /\ [][\A n \in GradNodes(graph) :
             /\ (~overwrite[n] /\ overwrite'[n]) => SetOverwrite(n, TRUE)
             /\ \A c \in Children(graph, n) :
                   (~overwrite[n] /\ Present(c) /\ IsBackward(c)) =>
                       /\ gradient'[n] = Add(gradient[n], ContributionOf(c, n))
                       /\ ~overwrite'[n]]_vars

\* C24 witness: gy got the contribution 3 * 1 + 3 * 2 of p twice, its flag
\* false the second time, and zero_grad() ran in between: it holds the second
\* contribution added to zeros, not the sum of the two
C24_Witness ==
    /\ pushed["gy"].from = <<"p", "p">>
    /\ pushed["gy"].sum = Vec(<<18>>)
    /\ ~overwrite["gy"]
    /\ gradient["p"] = Fill(<<2>>, 3)
    /\ gradient["gy"] = Vec(<<9>>)

-----------------------------------------------------------------------------
(* A node with the same parent on both sides, checked under SpecSquare *)

\* s = MultiplicationBackward(x, gx, x, gx) is the backward node of x * x,
\* with gx as its left and its right parent
SquareGraph ==
    Graph("square",
          [n \in {"x"} |-> <<2>>],
          [n \in {"x"} |-> {Vec(<<1, 2>>), Vec(<<2, 1>>), Vec(<<0, 3>>)}],
          NoFwd, <<>>,
          [n \in {"gx"} |-> <<2>>],
          [n \in {"s"} |-> BwdNode("MultiplicationBackward", "x", "gx", "x", "gx")],
          <<"s">>)

\* a RefCell borrow taken or dropped: mode "shared" for borrow(), "mut" for
\* borrow_mut()
Take(cell, mode) == [op |-> "take", cell |-> cell, mode |-> mode]

Drop(cell, mode) == [op |-> "drop", cell |-> cell, mode |-> mode]

\* a temporary borrow, dropped at the end of its statement
Temp(cell, mode) == <<Take(cell, mode), Drop(cell, mode)>>

\* mutant: the Ref of the parent's gradient taken for raw_dim() is kept in a
\* binding and lives across the push
BackwardBorrowsKeepsRef(n) ==
    LET nd == graph.bwd[n]
    IN <<Take(<<n, "gradient">>, "shared"), Take(<<n, "buffer">>, "mut")>>
       \o Temp(<<nd.right_data, "data">>, "shared")
       \o <<Take(<<nd.left_grad, "gradient">>, "shared")>>
       \o Temp(<<nd.left_grad, "gradient">>, "mut")
       \o <<Drop(<<nd.left_grad, "gradient">>, "shared")>>
       \o Temp(<<nd.left_data, "data">>, "shared")
       \o <<Take(<<nd.right_grad, "gradient">>, "shared")>>
       \o Temp(<<nd.right_grad, "gradient">>, "mut")
       \o <<Drop(<<nd.right_grad, "gradient">>, "shared")>>
       \o <<Drop(<<n, "buffer">>, "mut"), Drop(<<n, "gradient">>, "shared")>>

\* the RefCell borrows of MultiplicationBackward::backward in program order:
\* self.gradient() and the buffer are held to the end; the operand's data(),
\* the parent's gradient() inside the reduce(...) statement and the
\* gradient_mut() inside push_gradient are temporaries
BackwardBorrows(n) ==
    LET nd == graph.bwd[n]
    IN <<Take(<<n, "gradient">>, "shared"), Take(<<n, "buffer">>, "mut")>>
       \o Temp(<<nd.right_data, "data">>, "shared")
       \o Temp(<<nd.left_grad, "gradient">>, "shared")
       \o Temp(<<nd.left_grad, "gradient">>, "mut")
       \o Temp(<<nd.left_data, "data">>, "shared")
       \o Temp(<<nd.right_grad, "gradient">>, "shared")
       \o Temp(<<nd.right_grad, "gradient">>, "mut")
       \o <<Drop(<<n, "buffer">>, "mut"), Drop(<<n, "gradient">>, "shared")>>

\* RefCell: borrow() fails while a mutable borrow is out, borrow_mut() fails
\* while any borrow is out; held lists the borrows that are out
RECURSIVE BorrowsOk(_, _)
BorrowsOk(events, held) ==
    IF events = <<>> THEN TRUE
    ELSE LET e == Head(events)
             b == <<e.cell, e.mode>>
             out == {i \in 1..Len(held) : held[i][1] = e.cell}
         IN IF e.op = "drop"
            THEN BorrowsOk(Tail(events),
                           RemoveAt(held, CHOOSE i \in 1..Len(held) : held[i] = b))
            ELSE /\ IF e.mode = "mut" THEN out = {}
                    ELSE \A i \in out : held[i][2] = "shared"
                 /\ BorrowsOk(Tail(events), Append(held, b))

\* backward() of n with its RefCell borrows checked
CheckedBackward(n) ==
    IF BorrowsOk(BackwardBorrows(n), <<>>)
    THEN MultiplicationBackward_backward(n)
    ELSE /\ panic = NoPanic
         /\ n \in BackNodes(graph)
         /\ graph.bwd[n].kind = "MultiplicationBackward"
         /\ panic' = Panic("borrow", n, n)
         /\ UNCHANGED <<graph, gradient, shape, overwrite, buffer, pushed, roundTrip>>
         /\ UNCHANGED fwdVars
         /\ UNCHANGED optVars

InitSquare ==
    /\ InitBackwardOf(SquareGraph)
    /\ NoOptimizer

NextSquare ==
    \/ \E n \in GradNodes(graph) : \E v \in SeedVals : GradientMut(n, v)
    \/ \E n \in GradNodes(graph) : \E b \in OverwriteStates : SetOverwrite(n, b)
    \/ \E n \in GradNodes(graph) : WithGrad(n)
    \/ \E n \in BackNodes(graph) : CheckedBackward(n)

SpecSquare == InitSquare /\ [][NextSquare]_vars

\* C25: when one gradient node is the left and the right parent of a
\* MultiplicationBackward, backward() ends without a borrow failure and the
\* parent gets both contributions: with its flag true before, it holds
\* (g * right value) + (g * left value), the first stored and the second
\* added, and its flag is false.
C25_SameParentTwice ==
    [][\A n \in BackNodes(graph) :
          LET nd == graph.bwd[n]
              p == nd.left_grad
              g == gradient[n]
              timesRight == Tensor(g.shape, [i \in Indices(g.shape) |->
                                g.data[i] * data[nd.right_data].data[i]])
              timesLeft == Tensor(g.shape, [i \in Indices(g.shape) |->
                               g.data[i] * data[nd.left_data].data[i]])
          IN (nd.left_grad = nd.right_grad /\ Present(n) /\ CheckedBackward(n)) =>
                /\ panic' = NoPanic
                /\ overwrite[p] => gradient'[p] = Add(timesRight, timesLeft)
                /\ ~overwrite[p] =>
                      gradient'[p] = Add(Add(gradient[p], timesRight), timesLeft)
                /\ ~overwrite'[p]]_vars

\* C25 witness: x = (1, 2) and g = (1, 1): gx, which held (4, 8) with its flag
\* set again, holds (1, 2) + (1, 2)
C25_Witness ==
    /\ graph.name = "square"
    /\ panic = NoPanic
    /\ data["x"] = Vec(<<1, 2>>)
    /\ gradient["s"] = Fill(<<2>>, 1)
    /\ pushed["gx"].from = <<"s", "s">>
    /\ pushed["gx"].stale
    /\ gradient["gx"] = Vec(<<2, 4>>)

-----------------------------------------------------------------------------
(* What backward() and step() leave alone, checked under SpecFrame *)

\* graphs with a node of each of the five kinds
FrameGraphs == {ScalarGraph, UnaryGraph, MatBackGraph, MatSideGraph}

\* a state holds a graph of backward nodes or an optimizer
HasGraph == DOMAIN graph # {}

HasOptimizer == DOMAIN adam # {}

InitFrame ==
    \/ /\ \E g \in FrameGraphs : InitBackwardOf(g)
       /\ NoOptimizer
    \/ InitAdam

NextFrame ==
    \/ HasGraph /\ Next
    \/ HasOptimizer /\ NextAdam

SpecFrame == InitFrame /\ [][NextFrame]_vars

\* C26: backward() of a node leaves the node's own gradient buffer and own
\* overwrite flag as they were, leaves every forward value as it was, and
\* writes nothing but its parents' gradient buffers and flags and its own
\* scratch; the closure of step() leaves every parameter's gradient as it was.
C26_FrameOfBackwardAndStep ==
    [][/\ HasGraph =>
             \A n \in BackNodes(graph) :
                IsBackward(n) =>
                   /\ gradient'[n] = gradient[n]
                   /\ overwrite'[n] = overwrite[n]
                   /\ data' = data
                   /\ shape' = shape
                   /\ \A q \in GradNodes(graph) \ GradParents(graph, n) :
                         gradient'[q] = gradient[q] /\ overwrite'[q] = overwrite[q]
                   /\ \A q \in BackNodes(graph) \ {n} : buffer'[q] = buffer[q]
       /\ HasOptimizer =>
             \A p \in ParamIds :
                StepParam(p) =>
                   \A q \in ParamIds : adam'.params[q].grad = adam.params[q].grad]_vars

\* C26 witness: p of the scalar graph has pushed (1) * (3) and (1) * (2) to
\* its parents and still holds its gradient (1) with its flag true
C26_Witness ==
    /\ HasGraph
    /\ graph.name = "scalar"
    /\ pushed["gx"].from = <<"p">>
    /\ gradient["gx"] = Vec(<<3>>)
    /\ gradient["gy"] = Vec(<<2>>)
    /\ gradient["p"] = Vec(<<1>>)
    /\ overwrite["p"]
    /\ data["x"] = Vec(<<2>>) /\ data["y"] = Vec(<<3>>)

\* the case of step(): both closures of a step() have run on the gradients
\* (1) and (1, -1), the values have moved and the gradients are still there
C26_StepCase ==
    /\ HasOptimizer
    /\ running = Idle
    /\ lastOp.op = "step"
    /\ adam.params["w"].grad = Vec(<<Scale>>)
    /\ adam.params["b"].grad = Vec(<<Scale, -Scale>>)
    /\ adam.params["w"].data # ParamData["w"]
=============================================================================
